---- MODULE Spec2Model ----
(***************************************************************************)
(* Hydraulic shaping stage of the terra-incognita planet generator         *)
(* (crates/terra-core/src/hydraulic): priority-flood pit filling, D8 flow  *)
(* routing and accumulation, stream-network extraction, basin delineation, *)
(* stream-power erosion, mass wasting and glacial carving.                 *)
(*                                                                         *)
(* Rasters are row-major functions over 0..rows*cols-1, as in the code.    *)
(* Elevations are fixed-point integers: one unit is one representable      *)
(* step of the stored value (one metre against the 90 m cell size in the   *)
(* erosion operators), and a store of a real value rounds to the nearest   *)
(* unit (ties to even).                                                    *)
(***************************************************************************)
EXTENDS Integers, Sequences, FiniteSets, TLC

VARIABLES
    rows,       \* HeightField.height / FlowField.height
    cols,       \* HeightField.width  / FlowField.width
    data,       \* HeightField.data
    before,     \* copy of data taken before the last mutating operation
    filled,     \* pit-filled surface of the last compute_d8_flow
    flow,       \* FlowField: [direction, accumulation]
    network,    \* StreamNetwork: [stream_cells, orders, max_order]
    basins,     \* Vec<DrainageBasin>, area_cells of each basin by id
    glacial,    \* flow field handed to carve_glacial (accumulation only)
    args,       \* the call under way: its arguments, loop counter and transfer log
    result,     \* value returned by the last call of a stage outside hydraulic/
    pc          \* the operation that produced the current state

vars == <<rows, cols, data, before, filled, flow, network, basins, glacial, args, result, pc>>

\* ------------------------------------------------------------------ bounds

\* Elevation levels of the exhaustively enumerated 3x3 heightfields are 0..MaxZ.
MaxZ == 1

\* A test terrain has one cell overwritten (HeightField::set) by a value
\* k * PitStep, k in 0..MaxPit.
MaxPit == 4

\* ------------------------------------------------------------------ helpers

Max2(a, b) == IF a >= b THEN a ELSE b
Min2(a, b) == IF a <= b THEN a ELSE b

Cells(r, c) == 0 .. (r * c - 1)

RowOf(i, c) == i \div c
ColOf(i, c) == i % c

\* D8_OFFSETS[k]: index k corresponds to direction code k + 1.
D8_OFFSETS ==
    <<  <<-1, 0>>, <<-1, 1>>, <<0, 1>>, <<1, 1>>,
        <<1, 0>>,  <<1, -1>>, <<0, -1>>, <<-1, -1>> >>

\* D8_DIST[k] is 1 for the cardinal codes (odd) and sqrt(2) for the diagonal
\* codes (even); the model keeps the squared distance.
D8_DIST2(code) == IF code % 2 = 1 THEN 1 ELSE 2

InBounds(nr, nc, r, c) == nr >= 0 /\ nc >= 0 /\ nr < r /\ nc < c

\* The neighbour of cell i in direction `code` (1..8), or -1 when it is
\* outside the raster.
Neighbour(i, code, r, c) ==
    LET nr == RowOf(i, c) + D8_OFFSETS[code][1]
        nc == ColOf(i, c) + D8_OFFSETS[code][2]
    IN  IF InBounds(nr, nc, r, c) THEN nr * c + nc ELSE -1

Neighbours(i, r, c) ==
    { Neighbour(i, code, r, c) : code \in 1..8 } \ {-1}

IsEdge(i, r, c) ==
    \/ RowOf(i, c) = 0
    \/ RowOf(i, c) = r - 1
    \/ ColOf(i, c) = 0
    \/ ColOf(i, c) = c - 1

\* A raster written to its Vec: the same function, held as the table of its
\* values.
Stored(f) == CHOOSE g \in {f} : g = f

\* ------------------------------------------------------------------ priority_flood

\* (mutant) pop returns the greatest pair.
HeapMin_Greatest(heap) ==
    CHOOSE t \in heap :
        \A u \in heap : t[1] > u[1] \/ (t[1] = u[1] /\ t[2] >= u[2])

\* The heap holds (elevation, index) pairs; pop returns the least pair in
\* the lexicographic order of Reverse<(OrdF64, usize)>.
HeapMin(heap) ==
    CHOOSE t \in heap :
        \A u \in heap : t[1] < u[1] \/ (t[1] = u[1] /\ t[2] <= u[2])

\* (mutant) the neighbour is pushed without being raised.
RaiseTo_NoRaise(z, elev) == z

\* The raise applied to an unvisited neighbour of a popped cell.
RaiseTo(z, elev) == IF z < elev THEN elev ELSE z

\* The `while let Some(..) = heap.pop()` loop: st holds the filled raster,
\* the visited cells and the heap.
RECURSIVE FloodLoop(_, _, _)
FloodLoop(st, r, c) ==
    IF st.heap = {} THEN st.f
    ELSE
        LET top   == HeapMin(st.heap)
            elev  == top[1]
            i     == top[2]
            fresh == Neighbours(i, r, c) \ st.visited
            f2    == Stored([j \in DOMAIN st.f |->
                        IF j \in fresh THEN RaiseTo(st.f[j], elev) ELSE st.f[j]])
        IN  FloodLoop([f       |-> f2,
                       visited |-> st.visited \cup fresh,
                       heap    |-> (st.heap \ {top}) \cup { <<f2[j], j>> : j \in fresh }],
                      r, c)

priority_flood(d, r, c) ==
    LET edge == { i \in Cells(r, c) : IsEdge(i, r, c) }
    IN  FloodLoop([f |-> d, visited |-> edge, heap |-> { <<d[i], i>> : i \in edge }],
                  r, c)

\* ------------------------------------------------------------------ D8 direction

\* (mutant) the drop is compared without dividing by the distance.
SlopeGreater_NoDist(dz, code, bestDz, bestCode) ==
    dz > 0 /\ dz > bestDz

\* (mutant) slope >= best: a level neighbour is taken.
SlopeGreater_OrEqual(dz, code, bestDz, bestCode) ==
    IF dz < 0 THEN FALSE
    ELSE IF bestCode = 0 THEN TRUE
    ELSE dz * dz * D8_DIST2(bestCode) > bestDz * bestDz * D8_DIST2(code)

\* slope > best, for slope = dz / dist(code) and best = bestDz / dist(bestCode),
\* with best = 0.0 while bestCode = 0.  Both sides are compared exactly
\* through their squares (sqrt(2) is irrational, so a cardinal and a
\* diagonal slope of integer drops never tie unless both are zero).
SlopeGreater(dz, code, bestDz, bestCode) ==
    IF dz <= 0 THEN FALSE
    ELSE IF bestCode = 0 THEN TRUE
    ELSE dz * dz * D8_DIST2(bestCode) > bestDz * bestDz * D8_DIST2(code)

RECURSIVE SteepestFrom(_, _, _, _, _, _, _)
SteepestFrom(f, i, code, bestDz, bestCode, r, c) ==
    IF code > 8 THEN bestCode
    ELSE
        LET j == Neighbour(i, code, r, c)
        IN  IF j = -1 THEN SteepestFrom(f, i, code + 1, bestDz, bestCode, r, c)
            ELSE IF SlopeGreater(f[i] - f[j], code, bestDz, bestCode)
                 THEN SteepestFrom(f, i, code + 1, f[i] - f[j], code, r, c)
                 ELSE SteepestFrom(f, i, code + 1, bestDz, bestCode, r, c)

Directions(f, r, c) ==
    [i \in Cells(r, c) |-> SteepestFrom(f, i, 1, 0, 0, r, c)]

\* ------------------------------------------------------------------ accumulation

\* sort_unstable_by leaves the relative order of equal keys unspecified:
\* a tie-break is a ranking of the cell indices used only between equal keys.
TieBreaks == {"asc", "desc", "evens_first"}

TieRank(tb, i, n) ==
    CASE tb = "asc"  -> i
      [] tb = "desc" -> n - i
      [] OTHER       -> IF i % 2 = 0 THEN i ELSE n + i

\* (mutant) the cells are walked low to high.
RECURSIVE SortDesc_Ascending(_, _, _, _)
SortDesc_Ascending(S, key, tb, n) ==
    IF S = {} THEN <<>>
    ELSE
        LET first == CHOOSE i \in S : \A j \in S :
                        \/ key[i] < key[j]
                        \/ key[i] = key[j] /\ TieRank(tb, i, n) <= TieRank(tb, j, n)
        IN  <<first>> \o SortDesc_Ascending(S \ {first}, key, tb, n)

\* The cells of S ordered by descending key, ties by the tie-break: the
\* cell at position k is the one with k - 1 cells of S ahead of it.
SortDesc(S, key, tb, n) ==
    LET Ahead(i) == { j \in S :
                        \/ key[j] > key[i]
                        \/ key[j] = key[i] /\ TieRank(tb, j, n) < TieRank(tb, i, n) }
    IN  Stored([k \in 1..Cardinality(S) |->
                    CHOOSE i \in S : Cardinality(Ahead(i)) = k - 1])

\* One step of the accumulation walk: cell i hands its total downstream.
Donate(acc, i, dir, r, c) ==
    IF dir[i] = 0 THEN acc
    ELSE LET j == Neighbour(i, dir[i], r, c)
         IN  IF j = -1 THEN acc
             ELSE [acc EXCEPT ![j] = acc[j] + acc[i]]

\* The walk over the sorted cells: st holds the accumulation so far and
\* the position in the order.
RECURSIVE AccumWalk(_, _, _, _, _)
AccumWalk(st, order, dir, r, c) ==
    IF st.k > Len(order) THEN st.acc
    ELSE AccumWalk([acc |-> Donate(st.acc, order[st.k], dir, r, c), k |-> st.k + 1],
                   order, dir, r, c)

Accumulate(f, dir, tb, r, c) ==
    AccumWalk([acc |-> [i \in Cells(r, c) |-> 1], k |-> 1],
              SortDesc(Cells(r, c), f, tb, r * c), dir, r, c)

compute_d8_flow(d, tb, r, c) ==
    LET f   == Stored(priority_flood(d, r, c))
        dir == Stored(Directions(f, r, c))
    IN  [filled |-> f, direction |-> dir,
         accumulation |-> Accumulate(f, dir, tb, r, c)]

\* ------------------------------------------------------------------ input terrains

NoFlow == [direction |-> <<>>, accumulation |-> <<>>]
NoNetwork == [stream_cells |-> <<>>, orders |-> <<>>, max_order |-> 0]

Abs(x) == IF x < 0 THEN -x ELSE x

\* The terrains of the repository's flow-routing tests.
\* ramp:   z = (cols - c) * 10
\* valley: z = |c - cols/2| * 10 + (rows - 1 - r) * 2
\* flat:   z = 100
TestTerrain(name, r, c) ==
    [i \in Cells(r, c) |->
        CASE name = "ramp"   -> (c - ColOf(i, c)) * 10
          [] name = "valley" -> Abs(ColOf(i, c) - (c \div 2)) * 10 + (r - 1 - RowOf(i, c)) * 2
          [] OTHER           -> 100]

TerrainNames == {"ramp", "valley", "flat"}

PitStep == 25

\* HeightField::set
Set(d, i, v) == [d EXCEPT ![i] = v]

\* Every 3x3 field over 0..MaxZ, and every test terrain on a 4x5 raster
\* with one cell overwritten.
InputFields ==
    { [rows |-> 3, cols |-> 3, data |-> d] : d \in [Cells(3, 3) -> 0..MaxZ] }
    \cup
    { [rows |-> 4, cols |-> 5, data |-> Set(TestTerrain(t, 4, 5), i, k * PitStep)] :
        t \in TerrainNames, i \in Cells(4, 5), k \in 0..MaxPit }

\* ------------------------------------------------------------------ state machine: flow routing

InitFlow ==
    /\ \E hf \in InputFields :
        /\ rows = hf.rows
        /\ cols = hf.cols
        /\ data = hf.data
    /\ before = data
    /\ filled = <<>>
    /\ flow = NoFlow
    /\ network = NoNetwork
    /\ basins = <<>>
    /\ glacial = <<>>
    /\ args = <<>>
    /\ result = <<>>
    /\ pc = "input"

\* compute_d8_flow(&hf)
ComputeD8Flow ==
    /\ pc = "input"
    /\ \E tb \in TieBreaks :
        \E res \in { compute_d8_flow(data, tb, rows, cols) } :
            /\ filled' = res.filled
            /\ flow' = [direction |-> res.direction, accumulation |-> res.accumulation]
    /\ pc' = "routed"
    /\ UNCHANGED <<rows, cols, data, before, network, basins, glacial, args, result>>

NextFlow == ComputeD8Flow

SpecFlow == InitFlow /\ [][NextFlow]_vars

\* ------------------------------------------------------------------ claims: flow routing

\* The cells from which some path of 8-neighbour steps reaches a raster-edge
\* cell without the surface f ever rising along the way.
RECURSIVE DrainClosure(_, _, _, _)
DrainClosure(S, f, r, c) ==
    LET more == { i \in Cells(r, c) \ S :
                    \E j \in Neighbours(i, r, c) : j \in S /\ f[j] <= f[i] }
    IN  IF more = {} THEN S ELSE DrainClosure(S \cup more, f, r, c)

DrainsToEdge(f, r, c) ==
    DrainClosure({ i \in Cells(r, c) : IsEdge(i, r, c) }, f, r, c)

\* C2: when priority-flood terminates, every cell has a path of 8-neighbour
\* steps to a raster-edge cell along which the filled surface never rises.
C2_MonotonePathToEdge ==
    pc = "routed" => DrainsToEdge(filled, rows, cols) = Cells(rows, cols)

\* A pit was filled: an interior cell was raised, and the unfilled surface
\* had no monotone path from it.
C2_Witness ==
    /\ pc = "routed"
    /\ \E i \in Cells(rows, cols) :
        /\ ~IsEdge(i, rows, cols)
        /\ filled[i] > data[i]
        /\ i \notin DrainsToEdge(data, rows, cols)

\* Descent of cell i toward the neighbour in direction k, compared through
\* squares: (z - z_n) / dist, dist = 1 (cardinal) or sqrt(2) (diagonal).
DescentAtLeast(dzA, codeA, dzB, codeB) ==
    \* dzA / dist(codeA) >= dzB / dist(codeB), for dzA > 0
    dzB <= 0 \/ dzA * dzA * D8_DIST2(codeB) >= dzB * dzB * D8_DIST2(codeA)

\* C3: a cell's code is 0 exactly when no in-bounds neighbour is strictly
\* lower on the filled surface; otherwise it is in 1..8, points inside the
\* raster, and names a neighbour of largest descent (z - z_n)/dist.
C3_SteepestDescent ==
    pc = "routed" =>
        \A i \in Cells(rows, cols) :
            LET code  == flow.direction[i]
                lower == { j \in Neighbours(i, rows, cols) : filled[j] < filled[i] }
            IN  /\ code \in 0..8
                /\ (code = 0) <=> (lower = {})
                /\ code # 0 =>
                    LET n == Neighbour(i, code, rows, cols)
                    IN  /\ n # -1
                        /\ filled[n] < filled[i]
                        /\ \A k \in 1..8 :
                            LET m == Neighbour(i, k, rows, cols)
                            IN  m # -1 =>
                                  DescentAtLeast(filled[i] - filled[n], code,
                                                 filled[i] - filled[m], k)

\* A cell whose chosen neighbour has a smaller drop than some diagonal
\* neighbour but the larger descent once the distance is divided out, and a
\* sink, in the same field.
C3_Witness ==
    /\ pc = "routed"
    /\ \E i \in Cells(rows, cols) : flow.direction[i] = 0
    /\ \E i \in Cells(rows, cols) :
        /\ flow.direction[i] # 0
        /\ \E k \in 1..8 :
            LET n == Neighbour(i, flow.direction[i], rows, cols)
                m == Neighbour(i, k, rows, cols)
            IN  /\ m # -1
                /\ k < flow.direction[i]
                /\ filled[m] < filled[i]
                /\ filled[i] - filled[m] >= filled[i] - filled[n]

\* The cells whose direction code points to cell i.
Donors(i, dir, r, c) ==
    { j \in Cells(r, c) : dir[j] # 0 /\ Neighbour(j, dir[j], r, c) = i }

RECURSIVE SumOver(_, _)
SumOver(S, f) ==
    IF S = {} THEN 0
    ELSE LET x == CHOOSE y \in S : TRUE IN f[x] + SumOver(S \ {x}, f)

\* The cells whose flow path passes through i (i itself included).
RECURSIVE UpstreamClosure(_, _, _, _)
UpstreamClosure(S, dir, r, c) ==
    LET more == UNION { Donors(i, dir, r, c) : i \in S } \ S
    IN  IF more = {} THEN S ELSE UpstreamClosure(S \cup more, dir, r, c)

\* C4: each cell's accumulation is 1 plus the accumulations of the cells
\* whose direction points to it, which is the number of cells (itself
\* included) whose flow path passes through it.
C4_AccumulationIsUpstreamCount ==
    pc = "routed" =>
        \A i \in Cells(rows, cols) :
            /\ flow.accumulation[i] =
                 1 + SumOver(Donors(i, flow.direction, rows, cols), flow.accumulation)
            /\ flow.accumulation[i] =
                 Cardinality(UpstreamClosure({i}, flow.direction, rows, cols))

\* A filled pit and a flow path of three cells: an interior cell that was
\* raised, and a cell that receives from a donor that itself has a donor.
C4_Witness ==
    /\ pc = "routed"
    /\ \E i \in Cells(rows, cols) : ~IsEdge(i, rows, cols) /\ filled[i] > data[i]
    /\ \E i \in Cells(rows, cols) :
        \E j \in Donors(i, flow.direction, rows, cols) :
            /\ Donors(j, flow.direction, rows, cols) # {}
            /\ IsEdge(i, rows, cols)
            /\ ~IsEdge(j, rows, cols)

\* ------------------------------------------------------------------ delineate_basins

\* u32::MAX, the "unassigned" basin id.
Unassigned == -1

\* donors[j]: the cells whose direction code points to the in-bounds cell j.
BasinDonors(j, dir, r, c) ==
    { i \in Cells(r, c) : dir[i] # 0 /\ Neighbour(i, dir[i], r, c) = j }

\* is_outlet[i]: direction 0, or the downstream neighbour is off the raster.
IsOutlet(i, dir, r, c) ==
    dir[i] = 0 \/ Neighbour(i, dir[i], r, c) = -1

\* The cells the breadth-first walk from the queue reaches: donors, and
\* donors of donors, that are still unassigned when they are met.
RECURSIVE BfsReach(_, _, _, _, _)
BfsReach(S, ids, dir, r, c) ==
    LET more == { d \in UNION { BasinDonors(j, dir, r, c) : j \in S } :
                    ids[d] = Unassigned /\ d \notin S }
    IN  IF more = {} THEN S ELSE BfsReach(S \cup more, ids, dir, r, c)

\* for i in 0..n { if is_outlet[i] { ... next_id += 1 } }
RECURSIVE OutletLoop(_, _, _, _, _, _)
OutletLoop(i, ids, next, dir, r, c) ==
    IF i >= r * c THEN [ids |-> ids, next |-> next]
    ELSE IF ~IsOutlet(i, dir, r, c) THEN OutletLoop(i + 1, ids, next, dir, r, c)
    ELSE
        LET seeded == [ids EXCEPT ![i] = next]
            reach  == BfsReach({i}, seeded, dir, r, c)
        IN  OutletLoop(i + 1,
                       [j \in DOMAIN ids |-> IF j \in reach THEN next ELSE seeded[j]],
                       next + 1, dir, r, c)

\* (mutant) unreached cells are left without a basin.
RECURSIVE SingletonLoop_Skipped(_, _, _, _)
SingletonLoop_Skipped(i, ids, next, n) ==
    [ids |-> ids, next |-> next]

\* for bid in &mut basin_id { if *bid == u32::MAX { *bid = next_id; next_id += 1 } }
RECURSIVE SingletonLoop(_, _, _, _)
SingletonLoop(i, ids, next, n) ==
    IF i >= n THEN [ids |-> ids, next |-> next]
    ELSE IF ids[i] = Unassigned
         THEN SingletonLoop(i + 1, [ids EXCEPT ![i] = next], next + 1, n)
         ELSE SingletonLoop(i + 1, ids, next, n)

\* The basin id of every cell, the number of basins, and area_cells of each
\* basin (area[bid] += 1 for every cell of the raster).  The remaining
\* per-basin statistics are derived from these and from the elevations and
\* do not feed back into the ids or the areas.
delineate_basins(dir, r, c) ==
    LET a == OutletLoop(0, [i \in Cells(r, c) |-> Unassigned], 0, dir, r, c)
        b == SingletonLoop(0, a.ids, a.next, r * c)
    IN  [basin_id   |-> b.ids,
         num_basins |-> b.next,
         area_cells |-> [bid \in 0 .. (b.next - 1) |->
                            Cardinality({ i \in Cells(r, c) : b.ids[i] = bid })]]

\* ------------------------------------------------------------------ state machine: basins of any flow field

\* Every direction field with codes in 0..=8 on a 2x2 and on a 1x3 raster:
\* sinks, codes that leave the raster, chains and cycles.
InitBasins ==
    /\ \E s \in { <<2, 2>>, <<1, 3>> } :
        /\ rows = s[1]
        /\ cols = s[2]
    /\ data = [i \in Cells(rows, cols) |-> 0]
    /\ before = data
    /\ filled = <<>>
    /\ \E dir \in [Cells(rows, cols) -> 0..8] :
        flow = [direction |-> dir, accumulation |-> [i \in Cells(rows, cols) |-> 1]]
    /\ network = NoNetwork
    /\ basins = <<>>
    /\ glacial = <<>>
    /\ args = <<>>
    /\ result = <<>>
    /\ pc = "routed"

\* delineate_basins(&flow, &hf)
DelineateBasins ==
    /\ pc = "routed"
    /\ basins' = delineate_basins(flow.direction, rows, cols)
    /\ pc' = "basins"
    /\ UNCHANGED <<rows, cols, data, before, filled, flow, network, glacial, args, result>>

NextBasins == DelineateBasins

SpecBasins == InitBasins /\ [][NextBasins]_vars

\* ------------------------------------------------------------------ claims: basins

\* C1: for any flow field with direction codes in 0..=8, every cell belongs
\* to exactly one returned basin and the areas of the returned basins sum
\* to W * H.
C1_BasinAreasSumToCells ==
    pc = "basins" =>
        /\ \A i \in Cells(rows, cols) :
             basins.basin_id[i] \in DOMAIN basins.area_cells
        /\ SumOver(DOMAIN basins.area_cells, basins.area_cells) = rows * cols
        /\ \A bid \in DOMAIN basins.area_cells : basins.area_cells[bid] >= 1

\* A flow field with a cycle (no walk from an outlet reaches its cells, they
\* become singleton basins) next to a basin of more than one cell.
C1_Witness ==
    /\ pc = "basins"
    /\ \E i \in Cells(rows, cols) :
        /\ ~IsOutlet(i, flow.direction, rows, cols)
        /\ i \in UpstreamClosure(Donors(i, flow.direction, rows, cols),
                                 flow.direction, rows, cols)
        /\ basins.area_cells[basins.basin_id[i]] = 1
    /\ \E bid \in DOMAIN basins.area_cells : basins.area_cells[bid] >= 2

\* ------------------------------------------------------------------ extract_stream_network

\* donors_count[j]: the stream cells whose direction points to stream cell j.
DonorsCount(j, stream, dir, r, c) ==
    IF ~stream[j] THEN 0
    ELSE Cardinality({ i \in Cells(r, c) :
            stream[i] /\ dir[i] # 0 /\ Neighbour(i, dir[i], r, c) = j })

\* (mutant) the stream cells are walked from the outlet upwards.
RECURSIVE SortAscByKey_Descending(_, _, _, _)
SortAscByKey_Descending(S, key, tb, n) ==
    IF S = {} THEN <<>>
    ELSE
        LET first == CHOOSE i \in S : \A j \in S :
                        \/ key[i] > key[j]
                        \/ key[i] = key[j] /\ TieRank(tb, i, n) <= TieRank(tb, j, n)
        IN  <<first>> \o SortAscByKey_Descending(S \ {first}, key, tb, n)

\* The stream cells ordered by ascending accumulation, ties by the tie-break
\* (sort_unstable_by_key).
RECURSIVE SortAscByKey(_, _, _, _)
SortAscByKey(S, key, tb, n) ==
    IF S = {} THEN <<>>
    ELSE
        LET first == CHOOSE i \in S : \A j \in S :
                        \/ key[i] < key[j]
                        \/ key[i] = key[j] /\ TieRank(tb, i, n) <= TieRank(tb, j, n)
        IN  <<first>> \o SortAscByKey(S \ {first}, key, tb, n)

\* (mutant) a single donor of the maximum order already raises the order.
StrahlerOrd_BumpOnOne(dcount, mx, mxCount) ==
    IF dcount = 0 THEN 1
    ELSE IF mxCount >= 1 THEN mx + 1 ELSE mx

\* The cell's own Strahler order from its donor tally.
StrahlerOrd(dcount, mx, mxCount) ==
    IF dcount = 0 THEN 1
    ELSE IF mxCount >= 2 THEN mx + 1 ELSE mx

\* u8::saturating_add(1)
SaturatingInc(x) == IF x >= 255 THEN 255 ELSE x + 1

\* st = [orders, donor_max_order, donor_max_count]
RECURSIVE StrahlerWalk(_, _, _, _, _, _, _, _)
StrahlerWalk(st, order, k, dcount, stream, dir, r, c) ==
    IF k > Len(order) THEN st
    ELSE
        LET i   == order[k]
            ord == StrahlerOrd(dcount[i], st.donor_max_order[i], st.donor_max_count[i])
            o2  == [st.orders EXCEPT ![i] = ord]
            j   == IF dir[i] = 0 THEN -1 ELSE Neighbour(i, dir[i], r, c)
            st2 ==
                IF j = -1 \/ ~stream[j]
                THEN [st EXCEPT !.orders = o2]
                ELSE IF ord > st.donor_max_order[j]
                THEN [orders          |-> o2,
                      donor_max_order |-> [st.donor_max_order EXCEPT ![j] = ord],
                      donor_max_count |-> [st.donor_max_count EXCEPT ![j] = 1]]
                ELSE IF ord = st.donor_max_order[j]
                THEN [orders          |-> o2,
                      donor_max_order |-> st.donor_max_order,
                      donor_max_count |-> [st.donor_max_count EXCEPT
                                             ![j] = SaturatingInc(st.donor_max_count[j])]]
                ELSE [st EXCEPT !.orders = o2]
        IN  StrahlerWalk(st2, order, k + 1, dcount, stream, dir, r, c)

MaxOf(S) == IF S = {} THEN 0 ELSE CHOOSE x \in S : \A y \in S : x >= y

extract_stream_network(fl, a_min, tb, r, c) ==
    LET stream == [i \in Cells(r, c) |-> fl.accumulation[i] >= a_min]
        dcount == [j \in Cells(r, c) |-> DonorsCount(j, stream, fl.direction, r, c)]
        order  == SortAscByKey({ i \in Cells(r, c) : stream[i] },
                               fl.accumulation, tb, r * c)
        zero   == [i \in Cells(r, c) |-> 0]
        st     == StrahlerWalk([orders |-> zero, donor_max_order |-> zero,
                                donor_max_count |-> zero],
                               order, 1, dcount, stream, fl.direction, r, c)
    IN  [stream_cells |-> stream,
         orders       |-> st.orders,
         max_order    |-> MaxOf({ st.orders[i] : i \in Cells(r, c) })]

\* ------------------------------------------------------------------ state machine: stream network of any flow field

\* Thresholds a_min handed to extract_stream_network are 1..MaxAMin.
MaxAMin == 3

\* The directly encoded flow field of the test strahler_3_explicit_topology
\* (4 rows, 5 columns): two pairs of sources join into two order-2 streams
\* that join at the outlet (3,2).
StrahlerTestDirection ==
    [i \in Cells(4, 5) |->
        CASE i = 0  -> 5
          [] i = 1  -> 6
          [] i = 3  -> 4
          [] i = 4  -> 5
          [] i = 5  -> 4
          [] i = 9  -> 6
          [] i = 11 -> 4
          [] i = 13 -> 6
          [] OTHER  -> 0]

Acyclic(dir, r, c) ==
    \A i \in Cells(r, c) :
        i \notin UpstreamClosure(Donors(i, dir, r, c), dir, r, c)

\* "accumulation manually computed": the number of cells draining through i.
UpstreamCounts(dir, r, c) ==
    [i \in Cells(r, c) |-> Cardinality(UpstreamClosure({i}, dir, r, c))]

\* Every acyclic direction field with codes in 0..=8 on a 2x2 raster, and
\* the test topology with the direction of one cell overwritten.
NetworkDirections ==
    { [rows |-> 2, cols |-> 2, direction |-> d] :
        d \in { e \in [Cells(2, 2) -> 0..8] : Acyclic(e, 2, 2) } }
    \cup
    { [rows |-> 4, cols |-> 5, direction |-> d] :
        d \in { e \in { [StrahlerTestDirection EXCEPT ![i] = k] :
                          i \in Cells(4, 5), k \in 0..8 } : Acyclic(e, 4, 5) } }

InitNet ==
    /\ \E f \in NetworkDirections :
        /\ rows = f.rows
        /\ cols = f.cols
        /\ flow = [direction    |-> f.direction,
                   accumulation |-> UpstreamCounts(f.direction, f.rows, f.cols)]
    /\ data = [i \in Cells(rows, cols) |-> 0]
    /\ before = data
    /\ filled = <<>>
    /\ network = NoNetwork
    /\ basins = <<>>
    /\ glacial = <<>>
    /\ args = <<>>
    /\ result = <<>>
    /\ pc = "routed"

\* extract_stream_network(&flow, a_min)
ExtractStreamNetwork ==
    /\ pc = "routed"
    /\ \E a_min \in 1..MaxAMin, tb \in TieBreaks :
        /\ network' = extract_stream_network(flow, a_min, tb, rows, cols)
        /\ args' = [a_min |-> a_min]
    /\ pc' = "network"
    /\ UNCHANGED <<rows, cols, data, before, filled, flow, basins, glacial, result>>

NextNet == ExtractStreamNetwork

SpecNet == InitNet /\ [][NextNet]_vars

\* ------------------------------------------------------------------ claims: stream network

\* Every cell's accumulation is strictly greater than that of each cell
\* draining into it.
DonorsStrictlySmaller(fl, r, c) ==
    \A i \in Cells(r, c) : \A j \in Donors(i, fl.direction, r, c) :
        fl.accumulation[i] > fl.accumulation[j]

StreamDonors(i) ==
    { j \in Donors(i, flow.direction, rows, cols) : network.stream_cells[j] }

\* C5: on a flow field whose accumulation strictly grows downstream, every
\* stream cell's final order follows the Strahler rule over the final orders
\* of the stream cells draining directly into it: 1 without a stream donor,
\* the maximum donor order if it occurs once, that maximum plus 1 if it
\* occurs two or more times.
C5_StrahlerRule ==
    (pc = "network" /\ DonorsStrictlySmaller(flow, rows, cols)) =>
        \A i \in Cells(rows, cols) :
            IF ~network.stream_cells[i] THEN network.orders[i] = 0
            ELSE
                LET sd == StreamDonors(i)
                    mx == MaxOf({ network.orders[j] : j \in sd })
                    n  == Cardinality({ j \in sd : network.orders[j] = mx })
                IN  /\ network.stream_cells[i] <=> (flow.accumulation[i] >= args.a_min)
                    /\ sd = {} => network.orders[i] = 1
                    /\ (sd # {} /\ n = 1) => network.orders[i] = mx
                    /\ (sd # {} /\ n >= 2) => network.orders[i] = mx + 1

\* A network of order 3 in which one cell inherits the order of its single
\* highest donor (having a lower donor as well) and another is raised by two
\* donors of equal order.
C5_Witness ==
    /\ pc = "network"
    /\ DonorsStrictlySmaller(flow, rows, cols)
    /\ network.max_order = 3
    /\ \E i \in Cells(rows, cols) :
        /\ Cardinality(StreamDonors(i)) >= 2
        /\ \E j \in StreamDonors(i) : network.orders[j] = network.orders[i]
    /\ \E i \in Cells(rows, cols) :
        /\ Cardinality(StreamDonors(i)) >= 2
        /\ \A j \in StreamDonors(i) : network.orders[j] = network.orders[i] - 1

\* ------------------------------------------------------------------ fixed-point arithmetic

\* floor(sqrt(n)) by bisection, lo * lo <= n < hi * hi.
RECURSIVE IsqrtBetween(_, _, _)
IsqrtBetween(n, lo, hi) ==
    IF hi - lo <= 1 THEN lo
    ELSE
        LET mid == (lo + hi) \div 2
        IN  IF mid * mid <= n THEN IsqrtBetween(n, mid, hi)
            ELSE IsqrtBetween(n, lo, mid)

\* f64::sqrt, rounded down; n is below 2^31.
Isqrt(n) == IsqrtBetween(n, 0, 46341)

\* The cast `as f32` of the exact quotient num / den (den > 0): the nearest
\* representable value, ties to even.
RoundHalfEven(num, den) ==
    LET q   == num \div den
        rem == num - q * den
    IN  IF 2 * rem < den THEN q
        ELSE IF 2 * rem > den THEN q + 1
        ELSE IF q % 2 = 0 THEN q ELSE q + 1

\* cellsize_m of a heightfield with degenerate geographic bounds.
CellSize == 90

\* horn_gradient: dz_dx * 8 * cellsize and dz_dy * 8 * cellsize.
HornX(d, i, c) ==
    (d[i - c + 1] + 2 * d[i + 1] + d[i + c + 1])
        - (d[i - c - 1] + 2 * d[i - 1] + d[i + c - 1])

HornY(d, i, c) ==
    (d[i - c - 1] + 2 * d[i - c] + d[i - c + 1])
        - (d[i + c - 1] + 2 * d[i + c] + d[i + c + 1])

\* (slope_mag * 8 * cellsize)^2
HornNorm2(d, i, c) ==
    HornX(d, i, c) * HornX(d, i, c) + HornY(d, i, c) * HornY(d, i, c)

\* tan(angle_of_repose_deg) * cellsize, to the nearest unit.
TanReposeCs(angle) ==
    CASE angle = 0  -> 0
      [] angle = 20 -> 33
      [] angle = 25 -> 42
      [] angle = 30 -> 52
      [] angle = 35 -> 63
      [] OTHER      -> CellSize     \* 45 degrees

\* params_for_class: angle_of_repose_deg of the five terrain classes.
ClassAngles == {35, 30, 25, 20}

\* ------------------------------------------------------------------ interior loops

Builds == {"debug", "release"}

\* Outcome of walking `1..rows - 1` x `1..cols - 1` on usize.  `rows - 1`
\* with rows = 0 panics under overflow checks and wraps to usize::MAX
\* without them; `cols - 1` is evaluated once per row of the outer range.
\* A wrapped range whose body runs indexes past the end of the (empty)
\* vectors or collects without bound; a wrapped outer range over an empty
\* inner range does not finish.
InteriorStatus(r, c, build) ==
    IF r = 0 THEN
        IF build = "debug" THEN "overflow_panic"
        ELSE IF c \in {1, 2} THEN "unbounded"
        ELSE "abort"
    ELSE IF r <= 2 THEN "ok"
    ELSE IF c = 0 THEN
        IF build = "debug" THEN "overflow_panic" ELSE "abort"
    ELSE "ok"

Aborted == {"overflow_panic", "abort", "unbounded"}

InteriorCells(r, c) == { i \in Cells(r, c) : ~IsEdge(i, r, c) }

\* ------------------------------------------------------------------ apply_mass_wasting

\* slope_mag > tan_repose, both sides times 8 * cellsize and squared.
ExceedsRepose(d, i, tc, c) == HornNorm2(d, i, c) > 64 * tc * tc

\* tan_repose * dist for dist = cs * D8_DIST[k]: its floor, and whether
\* the floor is the exact value (sqrt(2) * tc is irrational unless tc = 0).
ReposeDrop(tc, code) == IF code % 2 = 1 THEN tc ELSE Isqrt(2 * tc * tc)
ReposeDropExact(tc, code) == code % 2 = 1 \/ tc = 0

\* transfer > 0.0 for transfer = ((z0 - z1) - tan_repose * dist) / 2.0
TransferPositive(dz, tc, code) ==
    IF code % 2 = 1 THEN dz > tc
    ELSE dz > 0 /\ dz * dz > 2 * tc * tc

\* (z0 - transfer) as f32, that is (z0 + z1 + tan_repose * dist) / 2 stored.
SourceAfter(z0, z1, tc, code) ==
    IF ReposeDropExact(tc, code)
    THEN RoundHalfEven(z0 + z1 + ReposeDrop(tc, code), 2)
    ELSE (z0 + z1 + ReposeDrop(tc, code) + 1) \div 2

\* (mutant) the transfer is not deposited.
TargetAfter_NoDeposit(z0, z1, tc, code) == z1

\* (z1 + transfer) as f32, that is (z0 + z1 - tan_repose * dist) / 2 stored.
TargetAfter(z0, z1, tc, code) ==
    IF ReposeDropExact(tc, code)
    THEN RoundHalfEven(z0 + z1 - ReposeDrop(tc, code), 2)
    ELSE (z0 + z1 - ReposeDrop(tc, code)) \div 2

\* The loop over `order`; log records every transfer made:
\* source, target, and the two elevations before and after.
RECURSIVE WastingWalk(_, _, _, _, _, _, _)
WastingWalk(d, log, order, k, tc, r, c) ==
    IF k > Len(order) THEN [data |-> d, log |-> log]
    ELSE
        LET i    == order[k]
            code == IF ExceedsRepose(d, i, tc, c)
                    THEN SteepestFrom(d, i, 1, 0, 0, r, c) ELSE 0
            j    == Neighbour(i, code, r, c)
        IN  IF code = 0 \/ ~TransferPositive(d[i] - d[j], tc, code)
            THEN WastingWalk(d, log, order, k + 1, tc, r, c)
            ELSE
                LET z0n == SourceAfter(d[i], d[j], tc, code)
                    z1n == TargetAfter(d[i], d[j], tc, code)
                IN  WastingWalk(Set(Set(d, i, z0n), j, z1n),
                                Append(log, [src |-> i, dst |-> j,
                                             z0 |-> d[i], z1 |-> d[j],
                                             z0n |-> z0n, z1n |-> z1n]),
                                order, k + 1, tc, r, c)

apply_mass_wasting(d, tc, tb, r, c) ==
    WastingWalk(d, <<>>, SortDesc(InteriorCells(r, c), d, tb, r * c), 1, tc, r, c)

\* ------------------------------------------------------------------ apply_stream_power

MAX_DZ == 10

\* Erodibility in halves: K = k2 / 2.  The empty slice is uniform K = 0.5.
ErodibilityAt(erodibility, i) ==
    IF erodibility = <<>> THEN 1 ELSE erodibility[i]

\* (k * accum.sqrt() * slope) as f32
\*   = sqrt(k2^2 * accum * HornNorm2) / (16 * cellsize), stored.
ErosionMagnitude(k2, accum, norm2) ==
    LET sq == k2 * k2 * accum * norm2
        s  == Isqrt(sq)
        dd == 16 * CellSize
    IN  IF s * s = sq THEN RoundHalfEven(s, dd)
        ELSE (s + dd \div 2) \div dd

\* (mutant) the clipped magnitude is added, not subtracted.
ClipDelta_Raise(m) == Min2(m, MAX_DZ)

\* dz.clamp(-MAX_DZ, 0.0) for dz = -m, m >= 0
ClipDelta(m) == 0 - Min2(m, MAX_DZ)

Delta(d, acc, erodibility, i, r, c) ==
    IF IsEdge(i, r, c) \/ ErodibilityAt(erodibility, i) <= 0 THEN 0
    ELSE ClipDelta(ErosionMagnitude(ErodibilityAt(erodibility, i), acc[i],
                                    HornNorm2(d, i, c)))

\* (mutant) no floor at zero.
FloorAtZero_None(z) == z

\* f32::max(z, 0.0)
FloorAtZero(z) == Max2(z, 0)

Erode(d, acc, erodibility, r, c) ==
    [i \in Cells(r, c) |-> FloorAtZero(d[i] + Delta(d, acc, erodibility, i, r, c))]

\* One pass of the `for _ in 0..iterations` body on a raster whose
\* interior loops finish.
StreamPowerPass(d, acc, erodibility, tc, tb, r, c) ==
    LET mw == apply_mass_wasting(Stored(Erode(d, acc, erodibility, r, c)), tc, tb, r, c)
        fl == compute_d8_flow(Stored(mw.data), tb, r, c)
    IN  [data |-> mw.data, log |-> mw.log, filled |-> fl.filled,
         flow |-> [direction |-> fl.direction, accumulation |-> fl.accumulation]]

\* ------------------------------------------------------------------ state machine: erosion

\* Elevation step of the erosion terrains.
ZStep == 200

\* Iterations of a modelled apply_stream_power call.
MaxIter == 2

\* The terrains of the stream-power and mass-wasting tests, at ZStep:
\* ramp:  z = (cols - c) * ZStep
\* cliff: z = 0 left of the cliff column cols - 2, ZStep on it, and a
\*        retaining wall on the last column
\* flat:  z = ZStep
ErodeTerrain(name, r, c) ==
    [i \in Cells(r, c) |->
        CASE name = "ramp"  -> (c - ColOf(i, c)) * ZStep
          [] name = "cliff" -> IF ColOf(i, c) < c - 2 THEN 0
                               ELSE IF ColOf(i, c) = c - 2 THEN ZStep
                               ELSE MaxPit * ZStep
          [] OTHER          -> ZStep]

ErodeTerrainNames == {"ramp", "cliff", "flat"}

\* Datum shifts: none, part of the terrain below zero, all of it below zero.
DatumShifts == {0, 0 - 2 * ZStep, 0 - (MaxPit + 5) * ZStep}

Shift(d, by) == [i \in DOMAIN d |-> d[i] + by]

\* Every test terrain on a 3x4 raster with one cell overwritten by a pit
\* (0) or a spike ((MaxPit + 1) * ZStep), at each datum; and the empty
\* rasters.
ErodeFields ==
    { [rows |-> 3, cols |-> 4,
       data |-> Shift(Set(ErodeTerrain(t, 3, 4), i, z), by)] :
        t \in ErodeTerrainNames, i \in Cells(3, 4),
        z \in {0, (MaxPit + 1) * ZStep}, by \in DatumShifts }
    \cup
    { [rows |-> sh[1], cols |-> sh[2], data |-> <<>>] :
        sh \in {<<0, 0>>, <<0, 3>>, <<3, 0>>} }

\* Erodibility slices: empty (uniform), all 0, all 1, and alternating 1 / 0.5.
ErodibilityFields(r, c) ==
    IF r * c = 0 THEN {<<>>}
    ELSE {<<>>,
          [i \in Cells(r, c) |-> 0],
          [i \in Cells(r, c) |-> 2],
          [i \in Cells(r, c) |-> IF i % 2 = 0 THEN 2 ELSE 1]}

InitErode ==
    /\ \E hf \in ErodeFields :
        /\ rows = hf.rows
        /\ cols = hf.cols
        /\ data = hf.data
    /\ before = data
    /\ filled = <<>>
    /\ flow = NoFlow
    /\ network = NoNetwork
    /\ basins = <<>>
    /\ glacial = <<>>
    /\ args = <<>>
    /\ result = <<>>
    /\ pc = "input"

\* apply_mass_wasting(&mut hf, angle)
ApplyMassWasting ==
    /\ pc = "input"
    /\ \E angle \in ClassAngles \cup {0, 45} :
        \E st \in { InteriorStatus(rows, cols, b) : b \in Builds } :
            IF st = "ok"
            THEN \E tb \in TieBreaks :
                    \E res \in { apply_mass_wasting(data, TanReposeCs(angle), tb, rows, cols) } :
                        /\ data' = res.data
                        /\ args' = [angle |-> angle, log |-> res.log]
                        /\ pc' = "wasted"
            ELSE /\ data' = data
                 /\ args' = [angle |-> angle, log |-> <<>>]
                 /\ pc' = st
    /\ before' = data
    /\ UNCHANGED <<rows, cols, filled, flow, network, basins, glacial, result>>

\* apply_stream_power(&mut hf, erodibility, iterations, angle) up to the loop
ApplyStreamPower ==
    /\ pc = "input"
    /\ \E erodibility \in ErodibilityFields(rows, cols), angle \in {35, 20},
          iterations \in {0, MaxIter}, tb \in TieBreaks :
        \E res \in { compute_d8_flow(data, tb, rows, cols) } :
            /\ filled' = res.filled
            /\ flow' = [direction |-> res.direction, accumulation |-> res.accumulation]
            /\ args' = [erodibility |-> erodibility, angle |-> angle,
                        iterations |-> iterations, done |-> 0, log |-> <<>>]
    /\ pc' = "eroding"
    /\ UNCHANGED <<rows, cols, data, before, network, basins, glacial, result>>

\* one iteration of the loop: erosion, floor at zero, mass wasting, flow
StreamPowerIteration ==
    /\ pc = "eroding"
    /\ args.done < args.iterations
    /\ \E st \in { InteriorStatus(rows, cols, b) : b \in Builds } :
        IF st = "ok"
        THEN \E tb \in TieBreaks :
                \E res \in { StreamPowerPass(data, flow.accumulation, args.erodibility,
                                             TanReposeCs(args.angle), tb, rows, cols) } :
                    /\ data' = res.data
                    /\ filled' = res.filled
                    /\ flow' = res.flow
                    /\ args' = [args EXCEPT !.done = @ + 1, !.log = res.log]
                    /\ pc' = "eroding"
        ELSE /\ pc' = st
             /\ UNCHANGED <<data, filled, flow, args>>
    /\ before' = data
    /\ UNCHANGED <<rows, cols, network, basins, glacial, result>>

\* the loop is over: the last flow field is returned
StreamPowerReturn ==
    /\ pc = "eroding"
    /\ args.done = args.iterations
    /\ pc' = "eroded"
    /\ UNCHANGED <<rows, cols, data, before, filled, flow, network, basins, glacial, args, result>>

NextErode ==
    \/ ApplyMassWasting
    \/ ApplyStreamPower
    \/ StreamPowerIteration
    \/ StreamPowerReturn

SpecErode == InitErode /\ [][NextErode]_vars

\* ------------------------------------------------------------------ claims: erosion

\* HeightField::max_elevation
max_elevation(d) == MaxOf({ d[i] : i \in DOMAIN d })

Total(d) == SumOver(DOMAIN d, d)

\* The heightfield obtained from d by the transfers log[k..] alone.
RECURSIVE Replay(_, _, _)
Replay(d, log, k) ==
    IF k > Len(log) THEN d
    ELSE Replay(Set(Set(d, log[k].src, log[k].z0n), log[k].dst, log[k].z1n), log, k + 1)

\* An iteration of the apply_stream_power loop has just finished.
IterationDone == pc \in {"eroding", "eroded"} /\ args.done >= 1

\* C6: apply_mass_wasting conserves the sum of elevations up to the rounding
\* of its stores (at most one unit per transfer): every transfer takes from
\* an interior source cell and gives to exactly one in-bounds neighbour,
\* the amount added equals the amount removed to within one unit, and no
\* other cell changes.
C6_MassWastingConserves ==
    pc = "wasted" =>
        /\ Abs(Total(data) - Total(before)) <= Len(args.log)
        /\ \A k \in 1..Len(args.log) :
            LET e == args.log[k]
            IN  /\ e.src \in InteriorCells(rows, cols)
                /\ e.dst \in Neighbours(e.src, rows, cols)
                /\ e.z0 - e.z0n >= 0
                /\ Abs((e.z0 - e.z0n) - (e.z1n - e.z1)) <= 1
        /\ data = Replay(before, args.log, 1)

\* Mass wasting moved material at least twice, once onto a border cell, and
\* the sum is unchanged.
C6_Witness ==
    /\ pc = "wasted"
    /\ Len(args.log) >= 2
    /\ \E k \in 1..Len(args.log) :
        /\ IsEdge(args.log[k].dst, rows, cols)
        /\ args.log[k].z0 - args.log[k].z0n > CellSize
    /\ Total(data) = Total(before)

C8_NonNegativeAfterIteration ==
    IterationDone => \A i \in Cells(rows, cols) : data[i] >= 0

\* An iteration started with a cell below zero and its mass wasting moved
\* material.
C8_Witness ==
    /\ IterationDone
    /\ \E i \in Cells(rows, cols) : before[i] < 0
    /\ Len(args.log) >= 1

\* C10: on a raster with W = 0 or H = 0 stream-power erosion and mass
\* wasting return without aborting.
C10_EmptyGridNoAbort ==
    rows * cols = 0 => pc \notin Aborted

\* ------------------------------------------------------------------ carve_glacial

GLACIAL_A_MIN == 200
PARABOLIC_WIDTH == 8
CIRQUE_RADIUS == 5

GlacialMask(acc) == [i \in DOMAIN acc |-> acc[i] >= GLACIAL_A_MIN]

\* z_target < z_wall for z_target = z_floor + k * d * d and
\* k = (z_wall - z_floor) / PARABOLIC_WIDTH^2
BelowWall(zf, zw, dist) ==
    (zw - zf) * (PARABOLIC_WIDTH * PARABOLIC_WIDTH - dist * dist) > 0

\* z_target.max(0.0) as f32
ParabolaStore(zf, zw, dist) ==
    FloorAtZero(RoundHalfEven(zf * PARABOLIC_WIDTH * PARABOLIC_WIDTH
                                + (zw - zf) * dist * dist,
                              PARABOLIC_WIDTH * PARABOLIC_WIDTH))

\* The east-west sweep of glacial cell i: every cell of its row within
\* PARABOLIC_WIDTH columns is visited once, against the floor read before
\* the sweep.
SweepRow(d, i, r, c) ==
    [n \in Cells(r, c) |->
        LET dist == Abs(ColOf(n, c) - ColOf(i, c))
        IN  IF RowOf(n, c) = RowOf(i, c) /\ dist <= PARABOLIC_WIDTH
               /\ BelowWall(d[i], d[n], dist)
            THEN ParabolaStore(d[i], d[n], dist)
            ELSE d[n]]

RECURSIVE ParabolicLoop(_, _, _, _, _)
ParabolicLoop(d, mask, i, r, c) ==
    IF i >= r * c THEN d
    ELSE IF mask[i] THEN ParabolicLoop(SweepRow(d, i, r, c), mask, i + 1, r, c)
    ELSE ParabolicLoop(d, mask, i + 1, r, c)

d8_local_min(d, i, r, c) ==
    LET zs == { d[j] : j \in Neighbours(i, r, c) \cup {i} }
    IN  CHOOSE z \in zs : \A y \in zs : z <= y

RECURSIVE OverdeepenLoop(_, _, _, _, _, _)
OverdeepenLoop(d, mask, dir, i, r, c) ==
    IF i >= r * c THEN d
    ELSE IF mask[i] /\ dir[i] = 0
         THEN OverdeepenLoop(Set(d, i, d8_local_min(d, i, r, c)), mask, dir, i + 1, r, c)
         ELSE OverdeepenLoop(d, mask, dir, i + 1, r, c)

\* No glacial cell's direction points to i.
is_glacial_head(mask, dir, i, r, c) ==
    \A j \in Donors(i, dir, r, c) : ~mask[j]

min_elevation(d) ==
    CHOOSE z \in { d[i] : i \in DOMAIN d } : \A j \in DOMAIN d : z <= d[j]

\* z_bowl * 500 for z_bowl = z_center - (1 - (d / rad)^2) * z_range * 0.05,
\* d2 the squared distance in cells.
Bowl500(zc, range, d2) ==
    500 * zc - (CIRQUE_RADIUS * CIRQUE_RADIUS - d2) * range

\* The bowl around head i: every cell within CIRQUE_RADIUS is visited once,
\* against the centre read before the bowl.
CarveBowl(d, i, range, r, c) ==
    [n \in Cells(r, c) |->
        LET dr == RowOf(n, c) - RowOf(i, c)
            dc == ColOf(n, c) - ColOf(i, c)
            d2 == dr * dr + dc * dc
        IN  IF Abs(dr) <= CIRQUE_RADIUS /\ Abs(dc) <= CIRQUE_RADIUS
               /\ d2 <= CIRQUE_RADIUS * CIRQUE_RADIUS
               /\ Bowl500(d[i], range, d2) < 500 * d[n]
            THEN FloorAtZero(RoundHalfEven(Bowl500(d[i], range, d2), 500))
            ELSE d[n]]

\* hf.get(r, c) < z_thresh for z_thresh = z_min + 0.80f32 * z_range; the
\* f32 constant is a little above 4/5, so equality with 4/5 counts as below.
BelowCirqueLine(z, zmin, range) == 5 * (z - zmin) <= 4 * range

RECURSIVE CirqueLoop(_, _, _, _, _, _, _, _)
CirqueLoop(d, mask, dir, zmin, range, i, r, c) ==
    IF i >= r * c THEN d
    ELSE IF mask[i] /\ is_glacial_head(mask, dir, i, r, c)
            /\ ~BelowCirqueLine(d[i], zmin, range)
         THEN CirqueLoop(CarveBowl(d, i, range, r, c), mask, dir, zmin, range, i + 1, r, c)
         ELSE CirqueLoop(d, mask, dir, zmin, range, i + 1, r, c)

carve_glacial(d, acc, tb, r, c) ==
    LET mask   == GlacialMask(acc)
        carved == Stored(ParabolicLoop(d, mask, 0, r, c))
        dir    == compute_d8_flow(carved, tb, r, c).direction
        deep   == Stored(OverdeepenLoop(carved, mask, dir, 0, r, c))
        zmin   == min_elevation(deep)
        range  == Max2(max_elevation(deep) - zmin, 1)
    IN  CirqueLoop(deep, mask, dir, zmin, range, 0, r, c)

\* ------------------------------------------------------------------ state machine: glacial carving

\* v_valley of the glacial tests: z = |c - cols/2| * 20 + (rows - 1 - r) * 2
VValley(r, c) ==
    [i \in Cells(r, c) |->
        Abs(ColOf(i, c) - (c \div 2)) * 20 + (r - 1 - RowOf(i, c)) * 2]

\* Accumulation of a flow field whose glacial channel is column ch.
ChannelAccumulation(ch, r, c) ==
    [i \in Cells(r, c) |->
        IF ColOf(i, c) = ch THEN GLACIAL_A_MIN + RowOf(i, c) ELSE 1]

\* Every 2x2 and 1x3 heightfield over the levels -2..MaxZ (times ZStep)
\* with every glacial mask, and the v-valley on a 4x5 raster at each datum
\* with one column as the glacial channel.
GlacialInputs ==
    { [rows |-> sh[1], cols |-> sh[2], data |-> [i \in DOMAIN lv |-> lv[i] * ZStep], acc |-> a] :
        sh \in {<<2, 2>>}, lv \in [Cells(2, 2) -> -2..MaxZ],
        a \in [Cells(2, 2) -> {1, GLACIAL_A_MIN}] }
    \cup
    { [rows |-> sh[1], cols |-> sh[2], data |-> [i \in DOMAIN lv |-> lv[i] * ZStep], acc |-> a] :
        sh \in {<<1, 3>>}, lv \in [Cells(1, 3) -> -2..MaxZ],
        a \in [Cells(1, 3) -> {1, GLACIAL_A_MIN}] }
    \cup
    { [rows |-> 4, cols |-> 5, data |-> Shift(VValley(4, 5), by),
       acc |-> ChannelAccumulation(ch, 4, 5)] :
        by \in {0, -20, -100}, ch \in 0..4 }

InitGlacial ==
    /\ \E in \in GlacialInputs :
        /\ rows = in.rows
        /\ cols = in.cols
        /\ data = in.data
        /\ glacial = in.acc
    /\ before = data
    /\ filled = <<>>
    /\ flow = NoFlow
    /\ network = NoNetwork
    /\ basins = <<>>
    /\ args = <<>>
    /\ result = <<>>
    /\ pc = "input"

\* apply_glacial_carving(&mut hf, &flow, GlacialClass::Active)
CarveGlacial ==
    /\ pc = "input"
    /\ \E tb \in TieBreaks :
        data' = carve_glacial(data, glacial, tb, rows, cols)
    /\ before' = data
    /\ pc' = "carved"
    /\ UNCHANGED <<rows, cols, filled, flow, network, basins, glacial, args, result>>

NextGlacial == CarveGlacial

SpecGlacial == InitGlacial /\ [][NextGlacial]_vars

\* C9: glacial carving only lowers terrain: after carve_glacial no cell is
\* higher than it was before.
C9_CarvingOnlyLowers ==
    pc = "carved" => \A i \in Cells(rows, cols) : data[i] <= before[i]

\* ------------------------------------------------------------------ compute_realism_score

\* Raw metric values and band edges are fixed-point thousandths; scores
\* are fixed-point with 1.0 = ScoreOne; a total of 100.0 is
\* 100 * ScoreOne.  NaN stands for every non-finite f32.
NaN == 0 - 2^30
ScoreOne == 10^5

TerrainClasses == {"Alpine", "Coastal", "Cratonic", "FluvialArid", "FluvialHumid"}

\* The metrics in the order of the `metrics` vector.
MetricNames ==
    << "hurst", "roughness_elev", "multifractal", "slope_mode", "aspect_circ_var",
       "tpi_ratio", "hypsometric", "geomorphon_l1", "drainage", "morans_i" >>

hurst_band(tc) ==
    CASE tc = "Alpine"      -> <<683, 819>>
      [] tc = "Coastal"     -> <<416, 572>>
      [] tc = "Cratonic"    -> <<482, 662>>
      [] tc = "FluvialArid" -> <<551, 782>>
      [] OTHER              -> <<357, 629>>

roughness_band(tc) ==
    CASE tc = "Alpine"      -> <<23, 712>>
      [] tc = "Coastal"     -> <<-156, 240>>
      [] tc = "Cratonic"    -> <<53, 632>>
      [] tc = "FluvialArid" -> <<-87, 629>>
      [] OTHER              -> <<-184, 560>>

multifractal_band(tc) ==
    CASE tc = "Alpine"      -> <<204, 1123>>
      [] tc = "Coastal"     -> <<149, 740>>
      [] tc = "Cratonic"    -> <<123, 648>>
      [] tc = "FluvialArid" -> <<258, 907>>
      [] OTHER              -> <<170, 888>>

hypsometric_band(tc) ==
    CASE tc = "Alpine"      -> <<196, 513>>
      [] tc = "Coastal"     -> <<334, 606>>
      [] tc = "Cratonic"    -> <<137, 435>>
      [] tc = "FluvialArid" -> <<217, 521>>
      [] OTHER              -> <<218, 509>>

drainage_band(tc) ==
    CASE tc = "Alpine"      -> <<1407, 3187>>
      [] tc = "Coastal"     -> <<24, 1886>>
      [] tc = "Cratonic"    -> <<84, 972>>
      [] tc = "FluvialArid" -> <<1351, 2793>>
      [] OTHER              -> <<60, 2662>>

morans_band(tc) ==
    CASE tc = "Alpine"      -> <<21, 355>>
      [] tc = "Coastal"     -> <<54, 404>>
      [] tc = "Cratonic"    -> <<27, 350>>
      [] tc = "FluvialArid" -> <<62, 404>>
      [] OTHER              -> <<68, 378>>

slope_mode_band(tc) ==
    CASE tc = "Alpine"      -> <<500, 20500>>
      [] tc = "Coastal"     -> <<500, 1500>>
      [] tc = "Cratonic"    -> <<500, 500>>
      [] tc = "FluvialArid" -> <<500, 2500>>
      [] OTHER              -> <<500, 2500>>

aspect_band(tc) == <<400, 850>>

tpi_band(tc) ==
    CASE tc = "Alpine"      -> <<74, 130>>
      [] tc = "Coastal"     -> <<224, 347>>
      [] tc = "Cratonic"    -> <<132, 334>>
      [] tc = "FluvialArid" -> <<88, 198>>
      [] OTHER              -> <<167, 393>>

GEOMORPHON_L1_PASS == 150
SCALE_NEUTRAL == 65 * (ScoreOne \div 100)

\* (1.0 - dist / width).clamp(0.0, 1.0) for dist > 0.  A width of zero is
\* replaced by 1e-6, far below one unit of dist, so the score is 0.
Degrade(dist, width) ==
    IF width = 0 \/ dist >= width THEN 0
    ELSE RoundHalfEven((width - dist) * ScoreOne, width)

\* band_score; a NaN value fails every comparison, reaches the last branch
\* and comes out of the clamp as NaN.
band_score(value, band) ==
    IF value = NaN THEN NaN
    ELSE IF value >= band[1] /\ value <= band[2] THEN ScoreOne
    ELSE IF value < band[1] THEN Degrade(band[1] - value, Abs(band[2] - band[1]))
    ELSE Degrade(value - band[2], Abs(band[2] - band[1]))

geomorphon_score(l1) ==
    IF l1 = NaN THEN NaN
    ELSE IF l1 <= GEOMORPHON_L1_PASS THEN ScoreOne
    ELSE Degrade(l1 - GEOMORPHON_L1_PASS, GEOMORPHON_L1_PASS)

\* Weights in hundredths, in the order of MetricNames.
Weights == <<10, 10, 8, 8, 8, 8, 12, 14, 12, 10>>

\* (mutant) a non-finite raw value is passed on as it is.
Finite_Unguarded(v, default) == v

\* the closure `finite`: v if v.is_finite(), else default
Finite(v, default) == IF v = NaN THEN default ELSE v

\* The per-metric scores of compute_realism_score for the raw metric
\* values raw[1..10]; planetary is `cs > 1_000.0`.
MetricScores(raw, tc, planetary) ==
    LET mf_raw == Finite(raw[3], 0)
    IN  << IF planetary THEN SCALE_NEUTRAL
           ELSE band_score(Finite(raw[1], 0), hurst_band(tc)),
           band_score(Finite(raw[2], 0), roughness_band(tc)),
           IF planetary /\ mf_raw # NaN
                /\ (mf_raw > multifractal_band(tc)[2] \/ mf_raw < 0)
           THEN SCALE_NEUTRAL
           ELSE band_score(mf_raw, multifractal_band(tc)),
           band_score(Finite(raw[4], 0), slope_mode_band(tc)),
           band_score(Finite(raw[5], 500), aspect_band(tc)),
           IF planetary THEN SCALE_NEUTRAL
           ELSE band_score(Finite(raw[6], 0), tpi_band(tc)),
           band_score(Finite(raw[7], 0), hypsometric_band(tc)),
           IF planetary THEN SCALE_NEUTRAL
           ELSE geomorphon_score(Finite(raw[8], 1000)),
           IF planetary /\ drainage_band(tc)[1] > 500 THEN SCALE_NEUTRAL
           ELSE band_score(Finite(raw[9], 0), drainage_band(tc)),
           band_score(Finite(raw[10], 0), morans_band(tc)) >>

\* sum of score * weight over the metrics, times 100: NaN as soon as one
\* score is NaN.  In units of ScoreOne / 100 * 100, i.e. 100.0 = 100 * ScoreOne.
RECURSIVE WeightedSum(_, _)
WeightedSum(scores, k) ==
    IF k > Len(scores) THEN 0
    ELSE
        LET rest == WeightedSum(scores, k + 1)
        IN  IF scores[k] = NaN \/ rest = NaN THEN NaN
            ELSE scores[k] * Weights[k] + rest

compute_realism_score(raw, tc, planetary) ==
    LET scores == MetricScores(raw, tc, planetary)
    IN  [total   |-> WeightedSum(scores, 1),
         metrics |-> [m \in 1..10 |->
                        [name |-> MetricNames[m], raw_value |-> raw[m],
                         score_0_1 |-> scores[m],
                         passed |-> scores[m] # NaN /\ 2 * scores[m] >= ScoreOne]]]

\* ------------------------------------------------------------------ state machine: scoring

\* Raw metric values: multiples of RawStep up to MaxRaw steps either side
\* of zero, and multiples of 40 * RawStep above them.
RawStep == 125
MaxRaw == 8

RawSamples ==
    { k * RawStep : k \in (0 - MaxRaw)..MaxRaw }
        \cup { k * 40 * RawStep : k \in 1..MaxRaw }

\* Which metrics came out NaN: none, one of them, or all.
NaNMasks == {{}} \cup { {m} : m \in 1..10 } \cup {1..10}

InitScore ==
    /\ rows = 0
    /\ cols = 0
    /\ data = <<>>
    /\ before = <<>>
    /\ filled = <<>>
    /\ flow = NoFlow
    /\ network = NoNetwork
    /\ basins = <<>>
    /\ glacial = <<>>
    /\ \E tc \in TerrainClasses, planetary \in BOOLEAN, v \in RawSamples, mask \in NaNMasks :
        args = [terrain_class |-> tc, planetary |-> planetary,
                raw |-> [m \in 1..10 |-> IF m \in mask THEN NaN ELSE v]]
    /\ result = <<>>
    /\ pc = "input"

\* compute_realism_score(&hf, terrain_class), from the ten metric results on
ComputeRealismScore ==
    /\ pc = "input"
    /\ result' = compute_realism_score(args.raw, args.terrain_class, args.planetary)
    /\ pc' = "scored"
    /\ UNCHANGED <<rows, cols, data, before, filled, flow, network, basins, glacial, args>>

NextScore == ComputeRealismScore

SpecScore == InitScore /\ [][NextScore]_vars

\* ------------------------------------------------------------------ claims: scoring

\* C11: every metric whose raw value is NaN receives a score of exactly 0.
C11_NaNScoresZero ==
    pc = "scored" =>
        \A m \in 1..10 :
            args.raw[m] = NaN => result.metrics[m].score_0_1 = 0

\* C12: every per-metric score is a number in [0, 1], the weights sum to
\* 1.0, and the total is 100 times the weighted sum of the scores, a number
\* in [0, 100].
C12_TotalInRange ==
    pc = "scored" =>
        /\ \A m \in 1..10 :
            /\ result.metrics[m].score_0_1 # NaN
            /\ result.metrics[m].score_0_1 >= 0
            /\ result.metrics[m].score_0_1 <= ScoreOne
        /\ SumOver(1..10, Weights) = 100
        /\ result.total # NaN
        /\ result.total = SumOver(1..10, [m \in 1..10 |->
                                result.metrics[m].score_0_1 * Weights[m]])
        /\ result.total >= 0
        /\ result.total <= 100 * ScoreOne

\* A score was computed with a NaN metric, a metric strictly between 0 and
\* 1, and a total strictly between 0 and 100.
C12_Witness ==
    /\ pc = "scored"
    /\ \E m \in 1..10 : args.raw[m] = NaN
    /\ \E m \in 1..10 :
        /\ result.metrics[m].score_0_1 > 0
        /\ result.metrics[m].score_0_1 < ScoreOne
    /\ result.total > 0
    /\ result.total < 100 * ScoreOne

\* ------------------------------------------------------------------ compute_hypsometric

\* Elevations of this section are in units of 1/Metre metres, so that a
\* range below 1 m can be non-zero; the integral and the CDF are in
\* thousandths.
Metre == 2

\* sorted.sort_by(partial_cmp): the elevations in ascending order
RECURSIVE SortedAsc(_)
SortedAsc(d) ==
    IF Len(d) = 0 THEN <<>>
    ELSE
        LET i == CHOOSE k \in DOMAIN d : \A j \in DOMAIN d : d[k] <= d[j]
        IN  <<d[i]>> \o SortedAsc([k \in 1..(Len(d) - 1) |-> IF k < i THEN d[k] ELSE d[k + 1]])

FlatCdf == [i \in 1..100 |-> 0]

compute_hypsometric(d) ==
    IF Len(d) = 0 THEN [integral |-> NaN, cdf |-> FlatCdf]
    ELSE
        LET n      == Len(d)
            min    == min_elevation(d)
            range  == max_elevation(d) - min
            sorted == SortedAsc(d)
        IN  IF range < Metre THEN [integral |-> 0, cdf |-> FlatCdf]
            ELSE [integral |-> RoundHalfEven((Total(d) - n * min) * 1000, n * range),
                  cdf |-> [i \in 1..100 |->
                             RoundHalfEven((sorted[((i - 1) * n) \div 100 + 1] - min) * 1000,
                                           range)]]

\* ------------------------------------------------------------------ state machine: hypsometry

\* Heightfields of one row and up to MaxHypsCells cells, each cell at one of
\* the levels 0..MaxHypsLevel above one of the datums.
MaxHypsCells == 3
MaxHypsLevel == 3

HypsDatums == {0, 0 - 5 * Metre, 100 * Metre}

HypsFields ==
    UNION { { [i \in 1..n |-> z0 + f[i]] : f \in [1..n -> 0..MaxHypsLevel] } :
            n \in 0..MaxHypsCells, z0 \in HypsDatums }

InitHyps ==
    /\ \E d \in HypsFields :
        /\ rows = (IF Len(d) = 0 THEN 0 ELSE 1)
        /\ cols = Len(d)
        /\ data = d
    /\ before = <<>>
    /\ filled = <<>>
    /\ flow = NoFlow
    /\ network = NoNetwork
    /\ basins = <<>>
    /\ glacial = <<>>
    /\ args = <<>>
    /\ result = <<>>
    /\ pc = "input"

\* compute_hypsometric(&hf)
ComputeHypsometric ==
    /\ pc = "input"
    /\ result' = compute_hypsometric(data)
    /\ pc' = "measured"
    /\ UNCHANGED <<rows, cols, data, before, filled, flow, network, basins, glacial, args>>

NextHyps == ComputeHypsometric

SpecHyps == InitHyps /\ [][NextHyps]_vars

\* ------------------------------------------------------------------ claims: hypsometry

\* C13: the integral is NaN whenever the elevation range is below 1 m, and
\* (mean - min) / (max - min) otherwise.
C13_NaNBelowOneMetre ==
    pc = "measured" =>
        IF Len(data) = 0 \/ max_elevation(data) - min_elevation(data) < Metre
        THEN result.integral = NaN
        ELSE result.integral =
                RoundHalfEven((Total(data) - Len(data) * min_elevation(data)) * 1000,
                              Len(data) * (max_elevation(data) - min_elevation(data)))

\* ------------------------------------------------------------------ generator: derived parameters

\* Sliders are in hundredths (0.50 = 50); h_base, h_variance and the
\* uplift scales are in 1/10000; the erosion factor in 1/10^8; the warp
\* amplitudes in thousandths.
Clamp(x, lo, hi) == IF x < lo THEN lo ELSE IF x > hi THEN hi ELSE x

classify_terrain(p) ==
    IF p.mountain_prevalence > 65 THEN "Alpine"
    ELSE IF p.mountain_prevalence < 20 /\ p.tectonic_activity < 30 THEN "Cratonic"
    ELSE IF p.water_abundance < 30 THEN "FluvialArid"
    ELSE "FluvialHumid"

direct_glacial_class(glaciation) ==
    IF glaciation > 65 THEN "Active"
    ELSE IF glaciation > 25 THEN "Former"
    ELSE "None"

\* (2.0 + fragmentation as f64 * 8.0).round() as usize: round half away
\* from zero, and the cast sends every value below zero to 0.
n_ridges_from_fragmentation(fragmentation) ==
    LET x100 == 200 + 8 * fragmentation
    IN  IF x100 < 50 THEN 0 ELSE (x100 + 50) \div 100

\* params_for_class(class).erosion_iters
erosion_iters(class) ==
    CASE class = "Alpine"       -> 30
      [] class = "FluvialHumid" -> 50
      [] class = "FluvialArid"  -> 20
      [] class = "Cratonic"     -> 10
      [] class = "Coastal"      -> 25

\* (mutant) the audit table lags behind the Alpine iteration count.
DebugErosionIterations_Stale(class) ==
    CASE class = "Alpine"       -> 20
      [] class = "FluvialHumid" -> 50
      [] class = "FluvialArid"  -> 20
      [] class = "Cratonic"     -> 10
      [] class = "Coastal"      -> 25

\* the `match terrain_class` of derive_debug_params
DebugErosionIterations(class) ==
    CASE class = "Alpine"       -> 30
      [] class = "FluvialHumid" -> 50
      [] class = "FluvialArid"  -> 20
      [] class = "Cratonic"     -> 10
      [] class = "Coastal"      -> 25

derive_debug_params(p) ==
    LET terrain_class == classify_terrain(p)
        water_scale   == 3000 + 140 * p.water_abundance
        age_scale     == 3000 + 140 * p.surface_age
    IN  [terrain_class         |-> terrain_class,
         glacial_class         |-> direct_glacial_class(p.glaciation),
         h_base                |-> Clamp(6500 + 20 * p.mountain_prevalence
                                            - 10 * p.surface_age, 5500, 9000),
         h_variance            |-> Clamp(1000 + 15 * p.climate_diversity, 1000, 2500),
         erosion_iterations    |-> DebugErosionIterations(terrain_class),
         n_ridges              |-> n_ridges_from_fragmentation(p.continental_fragmentation),
         tectonic_uplift_scale |-> 5000 + 150 * p.tectonic_activity,
         mountain_height_scale |-> 7000 + 60 * p.mountain_prevalence,
         erosion_factor        |-> Clamp(water_scale * age_scale, 5000000, 200000000),
         warp_macro            |-> 15,
         warp_micro            |-> 4]

\* derive_noise_params: the fields that depend on the sliders alone
derive_noise_params(p) ==
    [terrain_class |-> classify_terrain(p),
     h_base        |-> Clamp(6500 + 20 * p.mountain_prevalence - 10 * p.surface_age,
                             5500, 9000),
     h_variance    |-> Clamp(1000 + 15 * p.climate_diversity, 1000, 2500),
     glacial_class |-> direct_glacial_class(p.glaciation)]

\* simulate_plates: the ridge count it generates ridges for
PlateRidges(fragmentation) == n_ridges_from_fragmentation(fragmentation)

\* domain_warp(xa, ya, 0.015, 0.004, ..) in generate_tile
TileWarp == [macro |-> 15, micro |-> 4]

\* The values PlanetGenerator::generate and the stages it calls work with.
GenerateUses(p) ==
    LET noise_params    == derive_noise_params(p)
        tectonic_uplift == 5000 + 150 * p.tectonic_activity
        mountain_scale  == 7000 + 60 * p.mountain_prevalence
        water_scale     == 3000 + 140 * p.water_abundance
        age_scale       == 3000 + 140 * p.surface_age
    IN  [terrain_class         |-> noise_params.terrain_class,
         glacial_class         |-> direct_glacial_class(p.glaciation),
         h_base                |-> noise_params.h_base,
         h_variance            |-> noise_params.h_variance,
         erosion_iterations    |-> erosion_iters(noise_params.terrain_class),
         n_ridges              |-> PlateRidges(p.continental_fragmentation),
         tectonic_uplift_scale |-> tectonic_uplift,
         mountain_height_scale |-> mountain_scale,
         erosion_factor        |-> Clamp(water_scale * age_scale, 5000000, 200000000),
         warp_macro            |-> TileWarp.macro,
         warp_micro            |-> TileWarp.micro]

\* ------------------------------------------------------------------ state machine: derived parameters

\* Slider values: the interval [0, 1] in steps of SliderStep hundredths and
\* the thresholds of the classifiers with their neighbours, and values up
\* to SliderOver hundredths outside the interval.
SliderStep == 25
SliderOver == 100

SliderSamples ==
    { k * SliderStep : k \in 0..(100 \div SliderStep) }
        \cup {19, 20, 26, 29, 30, 65, 66}
        \cup {0 - SliderOver, 0 - 7, 106, 100 + SliderOver}

\* Which sliders take the first of two sampled values.
SliderPatterns == SUBSET (1..7)

GlobalParams ==
    { [tectonic_activity         |-> IF 1 \in pat THEN a ELSE b,
       water_abundance           |-> IF 2 \in pat THEN a ELSE b,
       surface_age               |-> IF 3 \in pat THEN a ELSE b,
       climate_diversity         |-> IF 4 \in pat THEN a ELSE b,
       glaciation                |-> IF 5 \in pat THEN a ELSE b,
       continental_fragmentation |-> IF 6 \in pat THEN a ELSE b,
       mountain_prevalence       |-> IF 7 \in pat THEN a ELSE b] :
        a \in SliderSamples, b \in SliderSamples, pat \in SliderPatterns }

InitParams ==
    /\ rows = 0
    /\ cols = 0
    /\ data = <<>>
    /\ before = <<>>
    /\ filled = <<>>
    /\ flow = NoFlow
    /\ network = NoNetwork
    /\ basins = <<>>
    /\ glacial = <<>>
    /\ args \in GlobalParams
    /\ result = [debug |-> <<>>, used |-> <<>>]
    /\ pc = "input"

\* derive_debug_params(&params)
DeriveDebugParams ==
    /\ result.debug = <<>>
    /\ result' = [result EXCEPT !.debug = derive_debug_params(args)]
    /\ pc' = (IF result.used = <<>> THEN "audited" ELSE "both")
    /\ UNCHANGED <<rows, cols, data, before, filled, flow, network, basins, glacial, args>>

\* PlanetGenerator::generate(&params), as far as its derived parameters go
GenerateParams ==
    /\ result.used = <<>>
    /\ result' = [result EXCEPT !.used = GenerateUses(args)]
    /\ pc' = (IF result.debug = <<>> THEN "generated" ELSE "both")
    /\ UNCHANGED <<rows, cols, data, before, filled, flow, network, basins, glacial, args>>

NextParams ==
    \/ DeriveDebugParams
    \/ GenerateParams

SpecParams == InitParams /\ [][NextParams]_vars

\* ------------------------------------------------------------------ claims: derived parameters

\* C15: every derived parameter reported by derive_debug_params (terrain
\* class, glacial class, h_base, h_variance, ridge count, uplift and
\* mountain scales, erosion factor, erosion iteration count, warp
\* amplitudes) equals the value generate uses for the same parameters.
C15_DebugMatchesGenerate ==
    pc = "both" => result.debug = result.used

\* Both entry points ran on sliders that reach a clamp of h_base and give
\* an Alpine class.
C15_Witness ==
    /\ pc = "both"
    /\ result.used.terrain_class = "Alpine"
    /\ result.debug.h_base = 9000
    /\ result.debug.erosion_iterations = 30

\* C19: for every fragmentation value the ridge count is
\* round(2 + 8 * fragmentation) clamped to [2, 10], hence within 2..10.
C19_RidgeCountClamped ==
    result.used # <<>> =>
        /\ result.used.n_ridges =
                Clamp((200 + 8 * args.continental_fragmentation + 50) \div 100, 2, 10)
        /\ result.used.n_ridges >= 2
        /\ result.used.n_ridges <= 10

\* ------------------------------------------------------------------ generator: the pipeline

\* params_for_class(class).angle_of_repose_deg
angle_of_repose_deg(class) ==
    CASE class = "Alpine"       -> 35
      [] class = "FluvialHumid" -> 30
      [] class = "FluvialArid"  -> 35
      [] class = "Cratonic"     -> 25
      [] class = "Coastal"      -> 20

POST_GLACIAL_ITERS == 10

\* The `for _ in 0..iterations` loop of apply_stream_power: st holds the
\* heightfield, the accumulation of the current flow field and the passes
\* done; at most MaxIter passes are run.
RECURSIVE StreamPowerLoop(_, _, _, _, _, _, _)
StreamPowerLoop(st, erodibility, iterations, angle, tb, r, c) ==
    IF st.done >= Min2(iterations, MaxIter) THEN st.data
    ELSE
        LET res == StreamPowerPass(st.data, st.acc, erodibility, TanReposeCs(angle),
                                   tb, r, c)
        IN  StreamPowerLoop([data |-> Stored(res.data),
                             acc  |-> Stored(res.flow.accumulation),
                             done |-> st.done + 1],
                            erodibility, iterations, angle, tb, r, c)

\* apply_stream_power: the heightfield it leaves
apply_stream_power(d, erodibility, iterations, angle, tb, r, c) ==
    StreamPowerLoop([data |-> Stored(d),
                     acc  |-> Stored(compute_d8_flow(d, tb, r, c).accumulation),
                     done |-> 0],
                    erodibility, iterations, angle, tb, r, c)

apply_glacial_carving(d, acc, class, tb, r, c) ==
    CASE class = "None"   -> d
      [] class = "Active" -> carve_glacial(d, acc, tb, r, c)
      [] class = "Former" ->
            apply_stream_power(carve_glacial(d, acc, tb, r, c), <<>>,
                               POST_GLACIAL_ITERS, 35, tb, r, c)

\* apply_hydraulic_shaping: the heightfield it leaves (generate drops the
\* flow field, network and basins it returns).  tb is the order in which
\* the build's sort_unstable leaves equal keys.
apply_hydraulic_shaping(d, terrain_class, erodibility, glacial_class, tb, r, c) ==
    LET eroded == apply_stream_power(d, erodibility, erosion_iters(terrain_class),
                                     angle_of_repose_deg(terrain_class), tb, r, c)
        acc    == Stored(compute_d8_flow(eroded, tb, r, c).accumulation)
    IN  apply_glacial_carving(eroded, acc, glacial_class, tb, r, c)

\* A generator stream seeded with seed ^ stage_tag: n draws below m.  The
\* draws depend on the seed and the tag alone.
SeededDraws(seed, tag, n, m) ==
    [i \in 0..(n - 1) |-> ((seed + tag) * 31 + i * 17 + ((seed * i) % 7)) % m]

\* simulate_plates: regime tags 0..4 and erodibility in halves
PlateFields(seed, r, c) ==
    [regime_field      |-> SeededDraws(seed, 1, r * c, 5),
     erodibility_field |-> SeededDraws(seed, 2, r * c, 3)]

\* simulate_climate(seed ^ 0x5A5A, ..): precipitation levels
ClimateMap(seed, r, c) == SeededDraws(seed, 3, r * c, 4)

\* generate_tile(&noise_params, seed32, ..): one of the erosion terrains
\* with a pit or a spike, all picked by the seed.
generate_tile(seed, r, c) ==
    LET name == CASE seed % 3 = 0 -> "ramp" [] seed % 3 = 1 -> "cliff" [] OTHER -> "flat"
    IN  Set(ErodeTerrain(name, r, c), (seed * 5) % (r * c),
            IF seed % 2 = 0 THEN 0 ELSE (MaxPit + 1) * ZStep)

\* (k * erosion_factor).clamp(0.0, 1.0), erodibility in halves
ScaleErodibility(k2, factor) ==
    Clamp(RoundHalfEven(k2 * (factor \div 10000), 10000), 0, 2)

\* PlanetGenerator::generate on an r x c grid: the raster outputs.
generate(p, tb, r, c) ==
    LET plates       == PlateFields(p.seed, r, c)
        map_field    == ClimateMap(p.seed, r, c)
        noise_params == derive_noise_params(p)
        tile         == generate_tile(p.seed, r, c)
        total_uplift == ((5000 + 150 * p.tectonic_activity)
                            * (7000 + 60 * p.mountain_prevalence)) \div 10000
        lifted       == [i \in Cells(r, c) |-> RoundHalfEven(tile[i] * total_uplift, 10000)]
        factor       == Clamp((3000 + 140 * p.water_abundance) * (3000 + 140 * p.surface_age),
                              5000000, 200000000)
        scaled       == [i \in Cells(r, c) |->
                            ScaleErodibility(plates.erodibility_field[i], factor)]
    IN  [heightfield  |-> apply_hydraulic_shaping(lifted, noise_params.terrain_class, scaled,
                                                  direct_glacial_class(p.glaciation), tb, r, c),
         regime_field |-> plates.regime_field,
         map_field    |-> map_field]

\* ------------------------------------------------------------------ state machine: repeated generation

\* Seeds 0..MaxSeed; elapsed wall-clock times 0..MaxElapsed.
MaxSeed == 5
MaxElapsed == 1

\* Slider presets: the defaults, a young dry glaciated alpine planet, an
\* old dry craton.
SliderPresets ==
    { [tectonic_activity |-> 50, water_abundance |-> 55, surface_age |-> 50,
       climate_diversity |-> 50, glaciation |-> 30, continental_fragmentation |-> 50,
       mountain_prevalence |-> 50],
      [tectonic_activity |-> 100, water_abundance |-> 0, surface_age |-> 0,
       climate_diversity |-> 50, glaciation |-> 70, continental_fragmentation |-> 50,
       mountain_prevalence |-> 100],
      [tectonic_activity |-> 0, water_abundance |-> 10, surface_age |-> 100,
       climate_diversity |-> 50, glaciation |-> 0, continental_fragmentation |-> 50,
       mountain_prevalence |-> 10] }

WithSeed(p, seed) == [x \in DOMAIN p \cup {"seed"} |-> IF x = "seed" THEN seed ELSE p[x]]

\* (mutant) the second run's sorts leave equal keys in another order than
\* the first run's.
SortTieOrder_PerRun(toolchain, run) ==
    IF run = 1 THEN toolchain
    ELSE CHOOSE tb \in TieBreaks : tb # toolchain

\* sort_unstable_by is a fixed algorithm of the build: equal keys come out
\* in the same order whenever the same slice is sorted.
SortTieOrder(toolchain, run) == toolchain

InitRuns ==
    /\ rows = 3
    /\ cols = 4
    /\ data = <<>>
    /\ before = <<>>
    /\ filled = <<>>
    /\ flow = NoFlow
    /\ network = NoNetwork
    /\ basins = <<>>
    /\ glacial = <<>>
    /\ \E p \in SliderPresets, seed \in 0..MaxSeed, toolchain \in TieBreaks :
        args = [params |-> WithSeed(p, seed), toolchain |-> toolchain]
    /\ result = <<>>
    /\ pc = "input"

\* terra-wasm generate(params): one run of PlanetGenerator::generate, timed
\* by the caller's clock.
Generate ==
    /\ Len(result) < 2
    /\ \E elapsed \in 0..MaxElapsed :
        \E res \in { generate(args.params, SortTieOrder(args.toolchain, Len(result) + 1),
                              rows, cols) } :
            /\ result' = Append(result,
                            [heightfield |-> res.heightfield,
                             regime_field |-> res.regime_field,
                             map_field |-> res.map_field,
                             generation_time_ms |-> elapsed])
            /\ data' = res.heightfield
    /\ pc' = (IF Len(result) = 0 THEN "once" ELSE "twice")
    /\ UNCHANGED <<rows, cols, before, filled, flow, network, basins, glacial, args>>

NextRuns == Generate

SpecRuns == InitRuns /\ [][NextRuns]_vars

\* ------------------------------------------------------------------ claims: repeated generation

RIDGE_THRESHOLD == 20
SUBDUCTION_THRESHOLD == 30
HOTSPOT_THRESHOLD == 20

\* f64::MAX
F64Max == 2^30

\* (mutant) the early exit culls ridges whose great circle is nearer than
\* the threshold.
RidgeCulled_Early(gc_dist) == gc_dist >= RIDGE_THRESHOLD - 1

\* `if gc_dist >= RIDGE_THRESHOLD_RAD { continue; }`: gc_dist is the
\* distance from the cell to the great circle through the ridge's main arc
RidgeCulled(gc_dist) == gc_dist >= RIDGE_THRESHOLD

\* The loop over ridge_arcs from ridge k on: the least distance to a main
\* arc among the ridges that are not culled.
RECURSIVE MinRidgeDist(_, _, _)
MinRidgeDist(ridge_dists, k, min_ridge_dist) ==
    IF k > Len(ridge_dists) THEN min_ridge_dist
    ELSE IF RidgeCulled(ridge_dists[k].gc) THEN MinRidgeDist(ridge_dists, k + 1, min_ridge_dist)
    ELSE IF ridge_dists[k].arc < min_ridge_dist
         THEN MinRidgeDist(ridge_dists, k + 1, ridge_dists[k].arc)
         ELSE MinRidgeDist(ridge_dists, k + 1, min_ridge_dist)

\* The body of the cell loop.  near is the cell's distances to every
\* ridge, subduction arc and hotspot; crust is crust_field[idx].
ClassifyCell(near, crust) ==
    IF MinRidgeDist(near.ridges, 1, F64Max) < RIDGE_THRESHOLD THEN "ActiveExtensional"
    ELSE IF \E k \in DOMAIN near.arcs : near.arcs[k] < SUBDUCTION_THRESHOLD
         THEN "ActiveCompressional"
    ELSE IF \E k \in DOMAIN near.hotspots : near.hotspots[k] < HOTSPOT_THRESHOLD
         THEN "VolcanicHotspot"
    ELSE CASE crust = "Continental"  -> "CratonicShield"
           [] crust = "ActiveMargin" -> "ActiveCompressional"
           [] OTHER                  -> "PassiveMargin"

\* generate_regime_field on a grid of n cells: RegimeField::new fills the
\* field with CratonicShield, and the loop classifies every cell.
generate_regime_field(near, crust_field, n) ==
    [idx \in 0..(n - 1) |-> ClassifyCell(near[idx], crust_field[idx])]

\* ------------------------------------------------------------------ state machine: regime field

\* Up to MaxRidges ridges, and at most one subduction arc and one hotspot;
\* distances DistEps tenths of a degree either side of a threshold, on it,
\* and far away.
MaxRidges == 2
DistEps == 1

CrustTypes == {"Oceanic", "PassiveMargin", "ActiveMargin", "Continental"}

Far == 900

Around(threshold) == {threshold - DistEps, threshold, threshold + DistEps}

\* The main arc lies on its great circle, so a cell is at least as far
\* from the arc as from the circle.
RidgePairs ==
    { d \in [gc  : Around(RIDGE_THRESHOLD),
             arc : Around(RIDGE_THRESHOLD) \cup {Far}] : d.gc <= d.arc }

SeqsUpTo(S, n) == UNION { [1..k -> S] : k \in 0..n }

NearTables ==
    { [ridges |-> rs, arcs |-> as, hotspots |-> hs] :
        rs \in SeqsUpTo(RidgePairs, MaxRidges),
        as \in SeqsUpTo(Around(SUBDUCTION_THRESHOLD), 1),
        hs \in SeqsUpTo(Around(HOTSPOT_THRESHOLD), 1) }

\* The same ridges, arcs and hotspots seen from a cell far from all of them.
FarFrom(near) ==
    [ridges   |-> [k \in DOMAIN near.ridges |-> [gc |-> Far, arc |-> Far]],
     arcs     |-> [k \in DOMAIN near.arcs |-> Far],
     hotspots |-> [k \in DOMAIN near.hotspots |-> Far]]

InitRegime ==
    /\ \E n \in {0, 2} :
        /\ rows = (IF n = 0 THEN 0 ELSE 1)
        /\ cols = n
        /\ \E near \in NearTables, c0 \in CrustTypes, c1 \in {"Continental", "Oceanic"} :
            args = [near |-> [idx \in 0..(n - 1) |-> IF idx = 0 THEN near ELSE FarFrom(near)],
                    crust_field |-> [idx \in 0..(n - 1) |-> IF idx = 0 THEN c0 ELSE c1]]
    /\ data = <<>>
    /\ before = <<>>
    /\ filled = <<>>
    /\ flow = NoFlow
    /\ network = NoNetwork
    /\ basins = <<>>
    /\ glacial = <<>>
    /\ result = <<>>
    /\ pc = "input"

\* generate_regime_field(&ridges, &arcs, &hotspots, &crust_field, width, height)
GenerateRegimeField ==
    /\ pc = "input"
    /\ result' = generate_regime_field(args.near, args.crust_field, rows * cols)
    /\ pc' = "classified"
    /\ UNCHANGED <<rows, cols, data, before, filled, flow, network, basins, glacial, args>>

NextRegime == GenerateRegimeField

SpecRegime == InitRegime /\ [][NextRegime]_vars

\* ------------------------------------------------------------------ claims: regime field

RIDGE_INFLUENCE == 50
ARC_INFLUENCE == 60
HOTSPOT_INFLUENCE == 40

\* Grain angles are multiples of a right angle, 0..3; their cosine and sine:
CosQ(q) == CASE q % 4 = 0 -> 1 [] q % 4 = 2 -> 0 - 1 [] OTHER -> 0
SinQ(q) == CASE q % 4 = 1 -> 1 [] q % 4 = 3 -> 0 - 1 [] OTHER -> 0

\* w = 1.0 - d / influence, in hundredths
Weight100(d, influence) == 100 - (100 * d) \div influence

\* (mutant) craton cells are processed like any other cell.
CratonSkipped_Never(regime) == FALSE

\* `if regime_field.get(r, c) == TectonicRegime::CratonicShield { continue; }`
CratonSkipped(regime) == regime = "CratonicShield"

\* The loop over `entries` (ridges, then subduction arcs) from entry k on;
\* sum is [x, y, w] = (sum_angle_x, sum_angle_y, total_weight) in hundredths.
RECURSIVE EntrySum(_, _, _)
EntrySum(entries, k, sum) ==
    IF k > Len(entries) THEN sum
    ELSE
        LET en == entries[k]
        IN  IF en.gc >= en.influence \/ en.d >= en.influence
            THEN EntrySum(entries, k + 1, sum)
            ELSE
                LET w     == Weight100(en.d, en.influence)
                    angle == IF en.perpendicular THEN en.strike + 1 ELSE en.strike
                IN  EntrySum(entries, k + 1,
                             [x |-> sum.x + w * CosQ(angle),
                              y |-> sum.y + w * SinQ(angle),
                              w |-> sum.w + w])

\* The loop over hotspots; d < 1e-10 is d = 0.
RECURSIVE HotspotSum(_, _, _)
HotspotSum(hs, k, sum) ==
    IF k > Len(hs) THEN sum
    ELSE IF hs[k].d >= HOTSPOT_INFLUENCE \/ hs[k].d = 0 THEN HotspotSum(hs, k + 1, sum)
    ELSE
        LET w == Weight100(hs[k].d, HOTSPOT_INFLUENCE)
        IN  HotspotSum(hs, k + 1,
                       [x |-> sum.x + w * CosQ(hs[k].radial),
                        y |-> sum.y + w * SinQ(hs[k].radial),
                        w |-> sum.w + w])

\* coherence.min(1.0) as f32, in hundredths
Coherence100(sum) ==
    Min2(RoundHalfEven(Isqrt((sum.x * sum.x + sum.y * sum.y) * 10000), sum.w), 100)

\* GrainField::zero: angle atan2(0, 1) = 0 and intensity 0
ZeroGrain == [angle |-> [y |-> 0, x |-> 1], intensity |-> 0]

\* One cell of the grid loop.  The angle atan2(y, x) is kept as its two
\* arguments.
GrainCell(regime, near) ==
    IF CratonSkipped(regime) THEN ZeroGrain
    ELSE
        LET sum == HotspotSum(near.hotspots, 1,
                              EntrySum(near.entries, 1, [x |-> 0, y |-> 0, w |-> 0]))
        IN  IF sum.w > 0
            THEN [angle |-> [y |-> sum.y, x |-> sum.x], intensity |-> Coherence100(sum)]
            ELSE ZeroGrain

derive_grain_field(regime_field, near, n) ==
    [idx \in 0..(n - 1) |-> GrainCell(regime_field[idx], near[idx])]

\* ------------------------------------------------------------------ state machine: grain field

TectonicRegimes ==
    {"PassiveMargin", "CratonicShield", "ActiveCompressional", "ActiveExtensional",
     "VolcanicHotspot"}

\* Strike angles 0..MaxQuarter quarter turns.
MaxQuarter == 1

\* What a cell sees of a ridge (grain parallel) or a subduction arc (grain
\* perpendicular): inside the influence radius, on it, or on a great
\* circle that passes near while the arc itself ends beyond the radius.
EntryViews(influence, perpendicular) ==
    { [gc |-> v[1], d |-> v[2], strike |-> q, influence |-> influence,
       perpendicular |-> perpendicular] :
        v \in {<<0, 0>>, <<influence \div 2, influence \div 2>>,
               <<influence \div 2, influence>>, <<influence, influence>>},
        q \in 0..MaxQuarter }

HotspotViews ==
    { [d |-> d, radial |-> q] :
        d \in {0, HOTSPOT_INFLUENCE \div 2, HOTSPOT_INFLUENCE}, q \in {0, 2} }

GrainViews ==
    { [entries |-> rs \o as, hotspots |-> hs] :
        rs \in SeqsUpTo(EntryViews(RIDGE_INFLUENCE, FALSE), 1),
        as \in SeqsUpTo(EntryViews(ARC_INFLUENCE, TRUE), 1),
        hs \in SeqsUpTo(HotspotViews, 1) }

InitGrain ==
    /\ \E n \in {0, 2} :
        /\ rows = (IF n = 0 THEN 0 ELSE 1)
        /\ cols = n
        /\ \E near \in GrainViews, r0 \in TectonicRegimes, r1 \in TectonicRegimes :
            args = [regime_field |-> [idx \in 0..(n - 1) |-> IF idx = 0 THEN r0 ELSE r1],
                    near |-> [idx \in 0..(n - 1) |-> near]]
    /\ data = <<>>
    /\ before = <<>>
    /\ filled = <<>>
    /\ flow = NoFlow
    /\ network = NoNetwork
    /\ basins = <<>>
    /\ glacial = <<>>
    /\ result = <<>>
    /\ pc = "input"

\* derive_grain_field(&regime_field, &ridges, &arcs, &hotspots)
DeriveGrainField ==
    /\ pc = "input"
    /\ result' = derive_grain_field(args.regime_field, args.near, rows * cols)
    /\ pc' = "grained"
    /\ UNCHANGED <<rows, cols, data, before, filled, flow, network, basins, glacial, args>>

NextGrain == DeriveGrainField

SpecGrain == InitGrain /\ [][NextGrain]_vars

\* ------------------------------------------------------------------ claims: grain field

\* C17: every cell whose regime is CratonicShield has grain intensity 0.
C17_CratonIntensityZero ==
    pc = "grained" =>
        \A idx \in DOMAIN result :
            args.regime_field[idx] = "CratonicShield" => result[idx].intensity = 0

\* A craton cell inside the influence radius of a boundary was left at
\* zero while its neighbour, not a craton, received grain.
C17_Witness ==
    /\ pc = "grained"
    /\ rows * cols > 0
    /\ args.regime_field[0] = "CratonicShield"
    /\ args.regime_field[1] # "CratonicShield"
    /\ result[0].intensity = 0
    /\ result[1].intensity > 0

\* ------------------------------------------------------------------ grid cell to coordinates

\* Latitudes and longitudes are in thousandths of a degree.

\* cell_to_vec3: Vec3::from_latlon of the cell centre
cell_to_vec3(r, c, width, height) ==
    [lat |-> 90000 - RoundHalfEven((2 * r + 1) * 90000, height),
     lon |-> RoundHalfEven((2 * c + 1) * 180000, width) - 180000]

\* compute_age_field: the point it measures the ridge distance from
AgeFieldPoint(r, c, width, height) ==
    [lat |-> 90000 - RoundHalfEven(r * 180000, Max2(height - 1, 1)),
     lon |-> RoundHalfEven(c * 360000, Max2(width - 1, 1)) - 180000]

\* the climate stages: lat = 90.0 - (r + 0.5) / height * 180.0
ClimateLatitude(r, height) ==
    [lat |-> 90000 - RoundHalfEven((2 * r + 1) * 90000, height)]

\* The stages that turn a grid cell into coordinates.
Stages == {"age_field", "crust", "subduction", "regime", "grain", "climate"}

StagePoint(stage, r, c, width, height) ==
    CASE stage = "age_field" -> AgeFieldPoint(r, c, width, height)
      [] stage = "climate"   -> ClimateLatitude(r, height)
      [] OTHER               -> cell_to_vec3(r, c, width, height)

\* ------------------------------------------------------------------ state machine: cell coordinates

\* Grids of up to MaxGridH rows and MaxGridW columns.
MaxGridH == 3
MaxGridW == 4

InitCoords ==
    /\ \E h \in 1..MaxGridH, w \in 1..MaxGridW :
        /\ rows = h
        /\ cols = w
        /\ \E r \in 0..(h - 1), c \in 0..(w - 1) : args = [r |-> r, c |-> c]
    /\ data = <<>>
    /\ before = <<>>
    /\ filled = <<>>
    /\ flow = NoFlow
    /\ network = NoNetwork
    /\ basins = <<>>
    /\ glacial = <<>>
    /\ result = [stage \in Stages |-> <<>>]
    /\ pc = "input"

\* A stage's grid loop reaches the cell (args.r, args.c).
StageMapsCell ==
    /\ \E stage \in Stages :
        /\ result[stage] = <<>>
        /\ result' = [result EXCEPT ![stage] = StagePoint(stage, args.r, args.c, cols, rows)]
    /\ pc' = "mapped"
    /\ UNCHANGED <<rows, cols, data, before, filled, flow, network, basins, glacial, args>>

NextCoords == StageMapsCell

SpecCoords == InitCoords /\ [][NextCoords]_vars

\* ------------------------------------------------------------------ claims: cell coordinates

\* C20: every stage maps the cell (r, c) to latitude 90 - (r + 0.5) / H * 180
\* and longitude -180 + (c + 0.5) / W * 360.
C20_CellCentredEverywhere ==
    \A stage \in Stages :
        result[stage] # <<>> =>
            /\ result[stage].lat = 90000 - RoundHalfEven((2 * args.r + 1) * 90000, rows)
            /\ "lon" \in DOMAIN result[stage] =>
                    result[stage].lon = RoundHalfEven((2 * args.c + 1) * 180000, cols) - 180000

\* ------------------------------------------------------------------ generate_subduction_arcs

\* min_sep_rad = 10 degrees, in tenths of a degree
MIN_SEP == 100

\* cell_to_vec3 in tenths of a degree
CellCentre(site, width, height) ==
    [lat |-> 900 - RoundHalfEven((2 * site[1] + 1) * 900, height),
     lon |-> RoundHalfEven((2 * site[2] + 1) * 1800, width) - 1800]

\* centre.dot(p).clamp(-1.0, 1.0).acos() for two points on one meridian
\* or on opposite meridians (grids of one or two columns): the angle
\* between them along the great circle through the poles.
AngleBetween(a, b) ==
    IF a.lon = b.lon THEN Abs(a.lat - b.lat)
    ELSE 1800 - Abs(a.lat + b.lat)

\* (mutant) only the centre accepted last is tested.
TooClose_LastOnly(centre, centres) ==
    Len(centres) > 0 /\ AngleBetween(centre, centres[Len(centres)]) < MIN_SEP

\* centres.iter().any(|&p| angle(centre, p) < min_sep_rad)
TooClose(centre, centres) ==
    \E k \in DOMAIN centres : AngleBetween(centre, centres[k]) < MIN_SEP

\* rng.gen_range(200.0..=600.0): the k-th radius drawn from the stream
RadiusKm(seed, k) == 200 + SeededDraws(seed, 4, k, 401)[k - 1]

\* The loop `for i in (0..sites.len()).step_by(stride)` from index i on
\* (indices from 1 here).
RECURSIVE ArcLoop(_, _, _, _, _, _, _, _)
ArcLoop(sites, i, stride, max_arcs, seed, arcs, width, height) ==
    IF i > Len(sites) \/ Len(arcs) >= max_arcs THEN arcs
    ELSE
        LET centre  == CellCentre(sites[i], width, height)
            centres == [k \in DOMAIN arcs |-> arcs[k].centre]
        IN  IF TooClose(centre, centres)
            THEN ArcLoop(sites, i + stride, stride, max_arcs, seed, arcs, width, height)
            ELSE ArcLoop(sites, i + stride, stride, max_arcs, seed,
                         Append(arcs, [centre |-> centre,
                                       radius_km |-> RadiusKm(seed, Len(arcs) + 1)]),
                         width, height)

generate_subduction_arcs(sites, width, height, seed, max_arcs) ==
    IF Len(sites) = 0 \/ max_arcs = 0 THEN <<>>
    ELSE ArcLoop(sites, 1, Max2(Len(sites) \div Max2(max_arcs, 1), 1), max_arcs, seed,
                 <<>>, width, height)

\* ------------------------------------------------------------------ state machine: subduction arcs

\* Initiation sites lie in the rows 0..MaxSiteRow of a grid of one or two
\* columns; up to MaxArcs arcs are asked for.
MaxSiteRow == 3
MaxArcs == 3

GridHeights == {18, 36, 60}

\* find_subduction_sites lists cells in row-major order.
RECURSIVE RowMajor(_, _, _)
RowMajor(S, k, width) ==
    IF k > (MaxSiteRow + 1) * width - 1 THEN <<>>
    ELSE IF k \in S THEN <<(<<k \div width, k % width>>)>> \o RowMajor(S, k + 1, width)
    ELSE RowMajor(S, k + 1, width)

InitArcs ==
    /\ \E h \in GridHeights, w \in {1, 2} :
        /\ rows = h
        /\ cols = w
        /\ \E S \in SUBSET (0..((MaxSiteRow + 1) * w - 1)), max_arcs \in 0..MaxArcs,
              seed \in {0, MaxSeed} :
            args = [sites |-> RowMajor(S, 0, w), max_arcs |-> max_arcs, seed |-> seed]
    /\ data = <<>>
    /\ before = <<>>
    /\ filled = <<>>
    /\ flow = NoFlow
    /\ network = NoNetwork
    /\ basins = <<>>
    /\ glacial = <<>>
    /\ result = <<>>
    /\ pc = "input"

\* generate_subduction_arcs(&sites, width, height, seed, max_arcs)
GenerateSubductionArcs ==
    /\ pc = "input"
    /\ result' = generate_subduction_arcs(args.sites, cols, rows, args.seed, args.max_arcs)
    /\ pc' = "placed"
    /\ UNCHANGED <<rows, cols, data, before, filled, flow, network, basins, glacial, args>>

NextArcs == GenerateSubductionArcs

SpecArcs == InitArcs /\ [][NextArcs]_vars

\* ------------------------------------------------------------------ claims: subduction arcs

\* C18: any two distinct accepted arc centres are at least 10 degrees apart.
C18_CentresSeparated ==
    pc = "placed" =>
        \A i \in DOMAIN result, j \in DOMAIN result :
            i # j => AngleBetween(result[i].centre, result[j].centre) >= 100

\* Several arcs were accepted and a site was turned down for being within
\* 10 degrees of a centre other than the last one accepted.
C18_Witness ==
    /\ pc = "placed"
    /\ Len(result) >= 2
    /\ Len(result) < args.max_arcs
    /\ \E k \in DOMAIN args.sites :
        LET centre == CellCentre(args.sites[k], cols, rows)
        IN  /\ AngleBetween(centre, result[1].centre) < MIN_SEP
            /\ AngleBetween(centre, result[1].centre) > 0
            /\ AngleBetween(centre, result[Len(result)].centre) >= MIN_SEP

\* ------------------------------------------------------------------ apply_orographic_correction

\* Precipitation is in millimetres; the multipliers are in seventieths
\* (0.70 = 49/70, 0.30 = 21/70, 1.5 = 105/70, 3.0 = 210/70).
WINDWARD_MIN == 105
WINDWARD_MAX == 210
LEEWARD_MIN == 21
LEEWARD_MAX == 49
BELT_WIDTH_SATURATE == 8

\* i64::rem_euclid(a, w) for w > 0
rem_euclid(a, w) == ((a % w) + w) % w

\* is_mountain[idx]
IsMountain(regime, idx) == regime[idx] = "ActiveCompressional"

\* (30.0..60.0).contains(&lat_deg.abs()) for the cell-centred latitude of
\* row r, lat_deg = 90 - (r + 0.5) / height * 180, compared in units of
\* 1 / (2 * height) degrees.
prevailing_wind_eastward(r, height) ==
    LET lat == Abs(180 * height - (2 * r + 1) * 180)
    IN  lat >= 60 * height /\ lat < 120 * height

Upwind(r, height) == IF prevailing_wind_eastward(r, height) THEN -1 ELSE 1

\* (width / 8).max(4)
Influence(width) == Max2(width \div 8, 4)

\* scan_direction: the column of the first mountain cell within `steps`
\* cells of (row, col) in direction col_step, or -1 for None.
RECURSIVE ScanFrom(_, _, _, _, _, _, _)
ScanFrom(row, col, col_step, s, steps, width, regime) ==
    IF s > steps THEN -1
    ELSE LET c == rem_euclid(col + col_step * s, width)
         IN  IF IsMountain(regime, row * width + c) THEN c
             ELSE ScanFrom(row, col, col_step, s + 1, steps, width, regime)

scan_direction(row, col, col_step, steps, width, regime) ==
    ScanFrom(row, col, col_step, 1, steps, width, regime)

\* One `for step in 1..=max_scan` loop of belt_width_at: the mountain cells
\* counted from `step` on before the first cell that is none.
RECURSIVE BeltRun(_, _, _, _, _, _, _)
BeltRun(row, mountain_col, dir, step, max_scan, width, regime) ==
    IF step > max_scan THEN 0
    ELSE IF IsMountain(regime, row * width + rem_euclid(mountain_col + dir * step, width))
         THEN 1 + BeltRun(row, mountain_col, dir, step + 1, max_scan, width, regime)
         ELSE 0

belt_width_at(row, mountain_col, width, regime) ==
    LET max_scan == Max2(width \div 4, 4)
    IN  1 + BeltRun(row, mountain_col, 1, 1, max_scan, width, regime)
          + BeltRun(row, mountain_col, -1, 1, max_scan, width, regime)

\* belt_strength * (BELT_WIDTH_SATURATE - 1)
BeltStrength7(belt_width) == Min2(belt_width, BELT_WIDTH_SATURATE) - 1

windward_mult(belt_width) ==
    WINDWARD_MIN + ((WINDWARD_MAX - WINDWARD_MIN) * BeltStrength7(belt_width))
                        \div (BELT_WIDTH_SATURATE - 1)

leeward_mult(belt_width) ==
    LEEWARD_MAX - ((LEEWARD_MAX - LEEWARD_MIN) * BeltStrength7(belt_width))
                        \div (BELT_WIDTH_SATURATE - 1)

\* map_field[idx] *= mult
Scaled(p, mult70) == RoundHalfEven(p * mult70, 70)

\* (mutant) mountain cells are corrected like any other cell.
MountainSkipped_Never(regime, idx) == FALSE

\* `if is_mountain[idx] { continue; }`
MountainSkipped(regime, idx) == IsMountain(regime, idx)

\* (mutant) the downwind scan is tried first.
LeewardFirst_Swapped(up, down) == down = -1

\* The `if let .. else if let` order: the upwind scan is tried first.
LeewardFirst(up, down) == up # -1

\* The body of the `for c in 0..width` loop for cell (r, c).
CorrectedCell(map_field, regime, r, c, width, height) ==
    LET idx  == r * width + c
        up   == scan_direction(r, c, Upwind(r, height), Influence(width), width, regime)
        down == scan_direction(r, c, 0 - Upwind(r, height), Influence(width), width, regime)
    IN  IF MountainSkipped(regime, idx) THEN map_field[idx]
        ELSE IF up = -1 /\ down = -1 THEN map_field[idx]
        ELSE IF LeewardFirst(up, down)
             THEN Scaled(map_field[idx], leeward_mult(belt_width_at(r, up, width, regime)))
             ELSE Scaled(map_field[idx], windward_mult(belt_width_at(r, down, width, regime)))

\* apply_orographic_correction: the map field it leaves.  Each cell is
\* written once and no cell's correction reads another cell's value.
apply_orographic_correction(map_field, regime, width, height) ==
    IF width = 0 \/ height = 0 THEN map_field
    ELSE [idx \in Cells(height, width) |->
            CorrectedCell(map_field, regime, idx \div width, idx % width, width, height)]

\* ------------------------------------------------------------------ state machine: orographic correction

\* Rasters of 1..MaxOroW columns and 1..MaxOroH rows with every mountain
\* mask in the first row, and one row of WideW columns whose scan radius
\* is width / 8.
MaxOroW == 7
MaxOroH == 2
WideW == 40

OroPlains == {"CratonicShield", "ActiveExtensional"}

\* A regime field: mountains on the mask of the row (the last mask for
\* every further row), `plain` elsewhere.
RegimeRows(masks, plain, width, height) ==
    [idx \in Cells(height, width) |->
        IF (idx % width) \in masks[Min2((idx \div width) + 1, Len(masks))]
        THEN "ActiveCompressional" ELSE plain]

\* A flat 1400 mm field and a field that differs in every cell.
OroMaps(width, height) ==
    { [idx \in Cells(height, width) |-> 1400],
      [idx \in Cells(height, width) |-> 70 * (idx + 3)] }

InitOro ==
    /\ \/ \E w \in 1..MaxOroW, h \in 1..MaxOroH, plain \in OroPlains :
            \E m1 \in SUBSET (0..(w - 1)) : \E m2 \in {m1, {}, {0}} :
                /\ cols = w
                /\ rows = h
                /\ args = RegimeRows(<<m1, m2>>, plain, w, h)
       \/ \E wide \in { {0}, {0, 1, 2}, {0, 6}, {} } :
            /\ cols = WideW
            /\ rows = 1
            /\ args = RegimeRows(<<wide>>, "CratonicShield", WideW, 1)
    /\ before \in OroMaps(cols, rows)
    /\ data = before
    /\ filled = <<>>
    /\ flow = NoFlow
    /\ network = NoNetwork
    /\ basins = <<>>
    /\ glacial = <<>>
    /\ result = <<>>
    /\ pc = "input"

ApplyOrographicCorrection ==
    /\ pc = "input"
    /\ data' = apply_orographic_correction(data, args, cols, rows)
    /\ pc' = "corrected"
    /\ UNCHANGED <<rows, cols, before, filled, flow, network, basins, glacial, args, result>>

NextOro == ApplyOrographicCorrection

SpecOro == InitOro /\ [][NextOro]_vars

\* ------------------------------------------------------------------ claims: orographic correction

\* C21: the correction leaves the precipitation of every mountain cell
\* (regime ActiveCompressional) exactly as it was.
C21_MountainCellsUnchanged ==
    pc = "corrected" =>
        \A idx \in Cells(rows, cols) :
            args[idx] = "ActiveCompressional" => data[idx] = before[idx]

\* A corrected field with a mountain cell that has other mountain cells
\* within the scan radius on both sides, next to a cell that was changed.
C21_Witness ==
    /\ pc = "corrected"
    /\ \E idx \in Cells(rows, cols) :
        /\ args[idx] = "ActiveCompressional"
        /\ idx % cols >= 2
        /\ idx % cols <= cols - 3
        /\ args[idx - 1] = "ActiveCompressional"
        /\ args[idx + 1] # "ActiveCompressional"
        /\ args[idx - 2] # "ActiveCompressional"
        /\ data[idx + 1] # before[idx + 1]
        /\ data[idx - 2] # before[idx - 2]

\* The distances 1..max(4, W/8) at which a mountain cell lies from column c
\* of row r, going in direction dir along the row with wrap-around.
C22_Seen(r, c, dir) ==
    { s \in 1..(IF cols \div 8 > 4 THEN cols \div 8 ELSE 4) :
        args[r * cols + ((c + dir * s + s * cols) % cols)] = "ActiveCompressional" }

C22_Nearest(r, c, dir) ==
    LET s == CHOOSE s \in C22_Seen(r, c, dir) : \A t \in C22_Seen(r, c, dir) : s <= t
    IN  (c + dir * s + s * cols) % cols

C22_WindEast(r) ==
    LET twice == 2 * 90 * rows - (2 * r + 1) * 180
        abs   == IF twice < 0 THEN 0 - twice ELSE twice
    IN  abs >= 2 * 30 * rows /\ abs < 2 * 60 * rows

\* C22: a cell that is no mountain is multiplied by the leeward multiplier
\* when a mountain cell lies within max(4, W/8) cells upwind, otherwise by
\* the windward multiplier when one lies within that range downwind,
\* otherwise it is unchanged; mountains on both sides give the leeward one.
C22_LeewardThenWindward ==
    pc = "corrected" =>
        \A r \in 0..(rows - 1), c \in 0..(cols - 1) :
            LET idx == r * cols + c
                up  == IF C22_WindEast(r) THEN -1 ELSE 1
            IN  args[idx] # "ActiveCompressional" =>
                    IF C22_Seen(r, c, up) # {}
                    THEN 70 * data[idx] = before[idx]
                            * leeward_mult(belt_width_at(r, C22_Nearest(r, c, up), cols, args))
                    ELSE IF C22_Seen(r, c, 0 - up) # {}
                    THEN 70 * data[idx] = before[idx]
                            * windward_mult(belt_width_at(r, C22_Nearest(r, c, 0 - up), cols, args))
                    ELSE data[idx] = before[idx]

\* One corrected row whose scan radius is above 4 holds a cell with
\* mountains on both sides, a cell with a mountain upwind at the last
\* distance scanned, a cell with a mountain downwind only, and a cell with
\* none in range.
C22_Witness ==
    /\ pc = "corrected"
    /\ cols \div 8 > 4
    /\ \E a \in 0..(cols - 1), b \in 0..(cols - 1), c \in 0..(cols - 1), e \in 0..(cols - 1) :
        /\ args[a] # "ActiveCompressional"
        /\ args[b] # "ActiveCompressional"
        /\ args[c] # "ActiveCompressional"
        /\ args[e] # "ActiveCompressional"
        /\ C22_Seen(0, a, 1) # {} /\ C22_Seen(0, a, -1) # {}
        /\ C22_Seen(0, e, 1) = {cols \div 8}
        /\ C22_Seen(0, b, 1) = {} /\ C22_Seen(0, b, -1) = {cols \div 8}
        /\ C22_Seen(0, c, 1) = {} /\ C22_Seen(0, c, -1) = {}
        /\ data[a] < before[a]
        /\ data[e] < before[e]
        /\ data[b] > before[b]
        /\ data[c] = before[c]

\* ------------------------------------------------------------------ generate_seasonality

\* Seasonality is in units of 1 / SeasonOne; precipitation in millimetres.
SeasonOne == 100000

\* lat_abs / 90 in eighths for the cell-centred latitude of row r: an
\* integer when height divides 8.
LatEighths(r, height) == Abs(8 * height - 8 * (2 * r + 1)) \div height

\* (lat_abs / 90.0).powf(0.7) in eighths, rounded down: the largest y with
\* (y / 8)^10 <= (x / 8)^7.
PowfDown(x8) ==
    CHOOSE y \in 0..8 :
        /\ y * y * y * y * y * y * y * y * y * y
                <= x8 * x8 * x8 * x8 * x8 * x8 * x8 * 512
        /\ \A z \in (y + 1)..8 :
                z * z * z * z * z * z * z * z * z * z
                    > x8 * x8 * x8 * x8 * x8 * x8 * x8 * 512

\* The values powf may return at this resolution: the exact power when it
\* is a whole number of eighths, else either neighbour.
lat_contribution(r, height) ==
    LET x8 == LatEighths(r, height)
        y  == PowfDown(x8)
    IN  IF y * y * y * y * y * y * y * y * y * y
                = x8 * x8 * x8 * x8 * x8 * x8 * x8 * 512
        THEN {y} ELSE {y, y + 1}

\* (mutant) the damping reaches 0.40 only.
MapDampen_Weak(map_mm) == 12500 - 3 * Min2(map_mm, 2500)

\* map_dampen * 12500 for map_ratio = (map_mm / 2500.0).min(1.0) and
\* map_dampen = 1.0 - map_ratio * 0.80
MapDampen(map_mm) == 12500 - 4 * Min2(map_mm, 2500)

\* (lat_contribution * map_dampen).clamp(0.0, 1.0)
SeasonalityCell(lat8, map_mm) == Clamp(lat8 * MapDampen(map_mm), 0, SeasonOne)

\* generate_seasonality, with powf[r] the value powf returned for row r.
generate_seasonality(map_field, width, height, powf) ==
    IF width * height = 0 \/ map_field = <<>> THEN <<>>
    ELSE [idx \in Cells(height, width) |->
            SeasonalityCell(powf[idx \div width], map_field[idx])]

\* ------------------------------------------------------------------ state machine: seasonality

\* Rasters of 1..MaxSeasonW columns and 1, 2, 4 or 8 rows; precipitation
\* at, around and far from 2500 mm, uniform or with one cell set apart.
MaxSeasonW == 2

SeasonHeights == {1, 2, 4, 8}

MapSamples == {0 - 100, 0, 1000, 2500, 2501, 3000, 6000}

InitSeason ==
    /\ cols \in 1..MaxSeasonW
    /\ rows \in SeasonHeights
    /\ \E base \in MapSamples, k \in Cells(rows, cols), v \in MapSamples :
        data = [idx \in Cells(rows, cols) |-> IF idx = k THEN v ELSE base]
    /\ before = <<>>
    /\ filled = <<>>
    /\ flow = NoFlow
    /\ network = NoNetwork
    /\ basins = <<>>
    /\ glacial = <<>>
    /\ args = <<>>
    /\ result = <<>>
    /\ pc = "input"

GenerateSeasonality ==
    /\ pc = "input"
    /\ \E up \in BOOLEAN :
        LET powf == [r \in 0..(rows - 1) |->
                        CHOOSE y \in lat_contribution(r, rows) :
                            \A z \in lat_contribution(r, rows) :
                                IF up THEN y >= z ELSE y <= z]
        IN  /\ result' = generate_seasonality(data, cols, rows, powf)
            /\ args' = powf
    /\ pc' = "seasonal"
    /\ UNCHANGED <<rows, cols, data, before, filled, flow, network, basins, glacial>>

NextSeason == GenerateSeasonality

SpecSeason == InitSeason /\ [][NextSeason]_vars

\* ------------------------------------------------------------------ claims: seasonality

\* C23: every cell whose mean annual precipitation exceeds 2500 mm has
\* seasonality at most 0.2.
C23_WetCellsCapped ==
    pc = "seasonal" =>
        \A idx \in Cells(rows, cols) :
            data[idx] > 2500 => 5 * result[idx] <= SeasonOne

\* A polar row holds a cell just above 2500 mm whose seasonality is above
\* 0.15, beside cells at 2500 mm or less, one of them above 0.2.
C23_Witness ==
    /\ pc = "seasonal"
    /\ \E idx \in Cells(rows, cols), j \in Cells(rows, cols) :
        /\ data[idx] = 2501
        /\ 100 * result[idx] > 15 * SeasonOne
        /\ data[j] <= 2500
        /\ 5 * result[j] > SeasonOne

\* ------------------------------------------------------------------ compute_glaciation_mask

\* The slider is in hundredths; latitudes and thresholds of a raster of
\* `height` rows are in units of 1 / (10 * height) degrees.

\* lat_abs for lat_deg = 90.0 - (r + 0.5) / height * 180.0
LatAbs(r, height) == Abs(900 * height - (2 * r + 1) * 900)

\* active_threshold = 90.0 - glaciation_slider * 60.0
active_threshold(slider, height) == (900 - 6 * slider) * height

\* former_threshold = active_threshold - glaciation_slider * 30.0
former_threshold(slider, height) == active_threshold(slider, height) - 3 * slider * height

\* (mutant) a row on the threshold is not at it.
AtThreshold_Strict(lat_abs, threshold) == lat_abs > threshold

\* lat_abs >= threshold
AtThreshold(lat_abs, threshold) == lat_abs >= threshold

\* The class of row r
RowClass(r, height, slider) ==
    IF AtThreshold(LatAbs(r, height), active_threshold(slider, height)) THEN "Active"
    ELSE IF AtThreshold(LatAbs(r, height), former_threshold(slider, height)) THEN "Former"
    ELSE "None"

\* compute_glaciation_mask: the class of each row pushed `width` times
compute_glaciation_mask(width, height, slider) ==
    IF width * height = 0 THEN <<>>
    ELSE [idx \in Cells(height, width) |-> RowClass(idx \div width, height, slider)]

\* ------------------------------------------------------------------ state machine: glaciation mask

\* Rasters of 0..MaxGlacW columns and 0..MaxGlacH rows.
MaxGlacW == 3
MaxGlacH == 10

GlaciationSamples == {0, 10, 25, 50, 75, 100}

InitGlaciation ==
    /\ cols \in 0..MaxGlacW
    /\ rows \in 0..MaxGlacH
    /\ args \in GlaciationSamples
    /\ data = <<>>
    /\ before = <<>>
    /\ filled = <<>>
    /\ flow = NoFlow
    /\ network = NoNetwork
    /\ basins = <<>>
    /\ glacial = <<>>
    /\ result = <<>>
    /\ pc = "input"

ComputeGlaciationMask ==
    /\ pc = "input"
    /\ result' = compute_glaciation_mask(cols, rows, args)
    /\ pc' = "masked"
    /\ UNCHANGED <<rows, cols, data, before, filled, flow, network, basins, glacial, args>>

NextGlaciation == ComputeGlaciationMask

SpecGlaciation == InitGlaciation /\ [][NextGlaciation]_vars

\* ------------------------------------------------------------------ claims: glaciation mask

\* The cell-centred absolute latitude of row r and the two thresholds for
\* slider g (hundredths), all times 10 * rows.
C24_Lat(r) ==
    LET twice == 180 * rows - (2 * r + 1) * 180
    IN  5 * (IF twice < 0 THEN 0 - twice ELSE twice)

C24_Active == 10 * rows * 90 - 6 * rows * args

C24_Band == 3 * rows * args

\* All columns of a row hold one class, and the mask is None at g = 0.
C24_Zonal ==
    /\ \A idx \in DOMAIN result :
            result[idx] = result[(idx \div cols) * cols]
    /\ args = 0 => \A idx \in DOMAIN result : result[idx] = "None"

\* C24 as stated: a cell is Active when its row's latitude is above the
\* active threshold 90 - 60 g, Former when it lies in the band reaching
\* 30 g further towards the equator, None otherwise; the mask is the same
\* in all columns of a row and None everywhere at g = 0.
C24_ActiveAbove ==
    pc = "masked" =>
        /\ DOMAIN result = Cells(rows, cols)
        /\ \A idx \in DOMAIN result :
            result[idx] =
                (IF C24_Lat(idx \div cols) > C24_Active THEN "Active"
                 ELSE IF C24_Lat(idx \div cols) >= C24_Active - C24_Band THEN "Former"
                 ELSE "None")
        /\ C24_Zonal

\* C24 amended: a cell is Active when its row's latitude is at or above
\* the active threshold 90 - 60 g, Former when it is below that and at or
\* above 90 - 90 g, None otherwise; the mask is the same in all columns of
\* a row and None everywhere at g = 0.
C24_ActiveAtOrAbove ==
    pc = "masked" =>
        /\ DOMAIN result = Cells(rows, cols)
        /\ \A idx \in DOMAIN result :
            result[idx] =
                (IF C24_Lat(idx \div cols) >= C24_Active THEN "Active"
                 ELSE IF C24_Lat(idx \div cols) >= C24_Active - C24_Band THEN "Former"
                 ELSE "None")
        /\ C24_Zonal

\* A mask of several columns with an Active row exactly on the active
\* threshold, a Former row and a None row.
C24_Witness ==
    /\ pc = "masked"
    /\ cols >= 2
    /\ \E a \in 0..(rows - 1), f \in 0..(rows - 1), n \in 0..(rows - 1) :
        /\ C24_Lat(a) = C24_Active
        /\ result[a * cols + 1] = "Active"
        /\ result[f * cols + 1] = "Former"
        /\ result[n * cols + 1] = "None"

\* ------------------------------------------------------------------ apply_hypsometric_shaping

\* Elevations are in thousandths of a metre, target_hi in hundredths.
Millimetres == 1000

\* gamma = (1.0 / target - 1.0).max(0.1) for target = target_hi.clamp(0.05, 0.95),
\* for the targets whose gamma is a whole number.
ShapeGamma(target_hi) ==
    LET target == Clamp(target_hi, 5, 95)
    IN  (100 - target) \div target

RECURSIVE Powi(_, _)
Powi(b, e) == IF e = 0 THEN 1 ELSE b * Powi(b, e - 1)

\* The position of idx in `order` after the stable
\* order.sort_by(|a, b| data[a].partial_cmp(data[b])): equal elevations
\* keep their index order.
ShapeRank(d, idx) ==
    Cardinality({ j \in DOMAIN d : d[j] < d[idx] \/ (d[j] = d[idx] /\ j < idx) })

\* new_data[idx] = min + (p.powf(gamma) as f32) * range for p = rank / (n - 1)
ShapedCell(d, idx, gamma, n) ==
    LET min   == min_elevation(d)
        range == max_elevation(d) - min
    IN  min + RoundHalfEven(Powi(ShapeRank(d, idx), gamma) * range, Powi(n - 1, gamma))

apply_hypsometric_shaping(d, target_hi) ==
    LET n == Cardinality(DOMAIN d)
    IN  IF n = 0 THEN d
        ELSE IF max_elevation(d) - min_elevation(d) < Millimetres THEN d
        ELSE [idx \in DOMAIN d |-> ShapedCell(d, idx, ShapeGamma(target_hi), n)]

\* ------------------------------------------------------------------ state machine: hypsometric shaping

\* Rasters of one row of 0..MaxShapeW cells with elevations of 0..MaxShapeZ metres.
MaxShapeW == 4
MaxShapeZ == 2

ShapeTargets == {20, 25, 50}

InitShape ==
    /\ rows = 1
    /\ cols \in 0..MaxShapeW
    /\ args \in ShapeTargets
    /\ data \in [Cells(rows, cols) -> { z * Millimetres : z \in 0..MaxShapeZ }]
    /\ before = data
    /\ filled = <<>>
    /\ flow = NoFlow
    /\ network = NoNetwork
    /\ basins = <<>>
    /\ glacial = <<>>
    /\ result = <<>>
    /\ pc = "input"

ApplyHypsometricShaping ==
    /\ pc = "input"
    /\ data' = apply_hypsometric_shaping(data, args)
    /\ pc' = "shaped"
    /\ UNCHANGED <<rows, cols, before, filled, flow, network, basins, glacial, args, result>>

NextShape == ApplyHypsometricShaping

SpecShape == InitShape /\ [][NextShape]_vars

\* ------------------------------------------------------------------ claims: hypsometric shaping

\* C25 as stated: shaping is monotone per cell: a cell that was not
\* higher than another before shaping is not higher than it afterwards,
\* so cells of equal elevation stay equal.
C25_MonotonePerCell ==
    pc = "shaped" =>
        \A a \in DOMAIN data, b \in DOMAIN data :
            before[a] <= before[b] => data[a] <= data[b]

\* ------------------------------------------------------------------ apply_hydraulic_shaping: the result

\* params_for_class(class).a_min
a_min_for_class(class) ==
    CASE class = "Alpine"       -> 200
      [] class = "FluvialHumid" -> 100
      [] class = "FluvialArid"  -> 300
      [] class = "Cratonic"     -> 500
      [] class = "Coastal"      -> 400

\* (mutant) the flow field returned by the erosion stage is handed on.
FinalFlow_Reused(flow_after_erosion, shaped, tb, r, c) == flow_after_erosion

\* Step 3: let flow = compute_d8_flow(hf)
FinalFlow(flow_after_erosion, shaped, tb, r, c) == compute_d8_flow(shaped, tb, r, c)

\* ------------------------------------------------------------------ state machine: hydraulic shaping

GlacialClasses == {"None", "Active", "Former"}

InitShaping ==
    /\ rows = 3
    /\ cols = 4
    /\ \E seed \in 0..MaxSeed : data = generate_tile(seed, rows, cols)
    /\ before = data
    /\ filled = <<>>
    /\ flow = NoFlow
    /\ network = NoNetwork
    /\ basins = <<>>
    /\ glacial = <<>>
    /\ \E tc \in TerrainClasses, gc \in GlacialClasses, toolchain \in TieBreaks :
        args = [terrain_class |-> tc, glacial_class |-> gc, toolchain |-> toolchain]
    /\ result = <<>>
    /\ pc = "input"

\* apply_hydraulic_shaping: steps 1 to 5.  apply_stream_power returns the
\* flow field of the heightfield it leaves; result keeps that field.
ApplyHydraulicShaping ==
    /\ pc = "input"
    /\ \E eroded \in { apply_stream_power(data, <<>>, erosion_iters(args.terrain_class),
                                          angle_of_repose_deg(args.terrain_class),
                                          args.toolchain, rows, cols) } :
       \E flow_after_erosion \in { compute_d8_flow(eroded, args.toolchain, rows, cols) } :
       \E shaped \in { apply_glacial_carving(eroded, flow_after_erosion.accumulation,
                                             args.glacial_class, args.toolchain,
                                             rows, cols) } :
       \E fl \in { FinalFlow(flow_after_erosion, shaped, args.toolchain, rows, cols) } :
            /\ data' = shaped
            /\ flow' = [direction |-> fl.direction, accumulation |-> fl.accumulation]
            /\ network' = extract_stream_network(fl, a_min_for_class(args.terrain_class),
                                                 args.toolchain, rows, cols)
            /\ basins' = delineate_basins(fl.direction, rows, cols)
            /\ result' = [direction    |-> flow_after_erosion.direction,
                          accumulation |-> flow_after_erosion.accumulation]
    /\ pc' = "shaped"
    /\ UNCHANGED <<rows, cols, before, filled, glacial, args>>

NextShaping == ApplyHydraulicShaping

SpecShaping == InitShaping /\ [][NextShaping]_vars

\* ------------------------------------------------------------------ claims: hydraulic shaping

\* C26: for every terrain class and glacial class, the flow field that
\* apply_hydraulic_shaping returns is the D8 flow of the heightfield as the
\* function leaves it.
C26_FlowOfFinalTerrain ==
    pc = "shaped" =>
        \E fl \in { compute_d8_flow(data, args.toolchain, rows, cols) } :
            /\ flow.direction = fl.direction
            /\ flow.accumulation = fl.accumulation

\* A run whose glacial stage changed the routing after the erosion stage
\* had returned its flow field.
C26_Witness ==
    /\ pc = "shaped"
    /\ args.glacial_class # "None"
    /\ data # before
    /\ result # flow

\* ------------------------------------------------------------------ claims: the flow graph and the spill level

\* The cells met by following direction codes from the last cell of
\* `path`, for at most `left` further steps; -1 stands for a step off the
\* raster.
RECURSIVE C27_Follow(_, _)
C27_Follow(path, left) ==
    LET i == path[Len(path)]
    IN  IF left = 0 \/ i = -1 THEN path
        ELSE IF flow.direction[i] = 0 THEN path
        ELSE C27_Follow(Append(path, Neighbour(i, flow.direction[i], rows, cols)), left - 1)

\* C27: the D8 flow graph is acyclic: every non-zero code points to a
\* neighbour that is strictly lower on the filled surface, and the path of
\* codes from any cell ends at a code-0 cell after at most W*H - 1 steps
\* without meeting a cell twice.
C27_FlowGraphAcyclic ==
    pc = "routed" =>
        \A i \in Cells(rows, cols) :
            LET path == C27_Follow(<<i>>, rows * cols - 1)
            IN  /\ \A k \in 1..Len(path) : path[k] # -1
                /\ \A k \in 1..(Len(path) - 1) : filled[path[k + 1]] < filled[path[k]]
                /\ flow.direction[path[Len(path)]] = 0
                /\ \A k \in 1..Len(path), m \in 1..Len(path) : path[k] = path[m] => k = m

\* A path of at least three steps, and a raised interior cell that is a
\* code-0 cell among level neighbours.
C27_Witness ==
    /\ pc = "routed"
    /\ \E i \in Cells(rows, cols) : Len(C27_Follow(<<i>>, rows * cols - 1)) >= 4
    /\ \E i \in Cells(rows, cols) :
        /\ ~IsEdge(i, rows, cols)
        /\ filled[i] > data[i]
        /\ flow.direction[i] = 0
        /\ \E j \in Neighbours(i, rows, cols) : filled[j] = filled[i]

\* The cells joined to a raster-edge cell by a path of 8-neighbour steps
\* on which no original elevation exceeds `level` (both ends included).
RECURSIVE C28_Joined(_, _)
C28_Joined(S, level) ==
    LET more == { i \in Cells(rows, cols) \ S :
                    /\ data[i] <= level
                    /\ \E j \in Neighbours(i, rows, cols) : j \in S }
    IN  IF more = {} THEN S ELSE C28_Joined(S \cup more, level)

\* The least over all paths from i to the edge of the greatest original
\* elevation on the path.
C28_SpillLevel(i) ==
    LET levels == { data[j] : j \in Cells(rows, cols) }
        ok     == { l \in levels :
                      i \in C28_Joined({ e \in Cells(rows, cols) :
                                            IsEdge(e, rows, cols) /\ data[e] <= l }, l) }
    IN  CHOOSE l \in ok : \A m \in ok : l <= m

\* C28: priority-flood fills each cell to exactly its spill level: the
\* minimum, over the 8-connected paths from the cell to a raster-edge cell,
\* of the maximum original elevation on the path; no cell is lowered and
\* edge cells keep their elevation.
C28_FilledToSpillLevel ==
    pc = "routed" =>
        \A i \in Cells(rows, cols) :
            /\ filled[i] = C28_SpillLevel(i)
            /\ filled[i] >= data[i]
            /\ IsEdge(i, rows, cols) => filled[i] = data[i]

\* An interior pit filled to a level that lies above one of its
\* neighbours and below another: the spill level is neither the cell's own
\* elevation nor the greatest around it.
C28_Witness ==
    /\ pc = "routed"
    /\ \E i \in Cells(rows, cols) :
        /\ ~IsEdge(i, rows, cols)
        /\ filled[i] > data[i]
        /\ \E j \in Neighbours(i, rows, cols) : data[j] > filled[i]
        /\ \E j \in Neighbours(i, rows, cols) : data[j] < filled[i]

\* ------------------------------------------------------------------ state machine: stream network of a routed heightfield

\* compute_d8_flow followed by extract_stream_network on its result.
NextStreams ==
    \/ ComputeD8Flow
    \/ ExtractStreamNetwork

SpecStreams == InitFlow /\ [][NextStreams]_vars

\* ------------------------------------------------------------------ claims: stream order downstream

\* The stream cell that stream cell i drains into, or -1.
C30_Downstream(i) ==
    IF ~network.stream_cells[i] \/ flow.direction[i] = 0 THEN -1
    ELSE LET j == Neighbour(i, flow.direction[i], rows, cols)
         IN  IF j = -1 THEN -1
             ELSE IF network.stream_cells[j] THEN j ELSE -1

\* C30: in the stream network of a compute_d8_flow result the Strahler
\* order never falls downstream: a stream cell whose downstream neighbour
\* is a stream cell has an order no greater than that neighbour's.
C30_OrderNeverFallsDownstream ==
    pc = "network" =>
        \A i \in Cells(rows, cols) :
            C30_Downstream(i) # -1 =>
                network.orders[C30_Downstream(i)] >= network.orders[i]

\* A network with a confluence: two stream cells of one order drain into
\* a cell of the next order, which drains into a stream cell of its own
\* order.
C30_Witness ==
    /\ pc = "network"
    /\ \E i \in Cells(rows, cols), k \in Cells(rows, cols) :
        /\ i # k
        /\ C30_Downstream(i) # -1
        /\ C30_Downstream(i) = C30_Downstream(k)
        /\ network.orders[i] = network.orders[k]
        /\ network.orders[C30_Downstream(i)] = network.orders[i] + 1
        /\ C30_Downstream(C30_Downstream(i)) # -1
        /\ network.orders[C30_Downstream(C30_Downstream(i))] = network.orders[i] + 1

\* ------------------------------------------------------------------ the accumulation walk, one cell at a time

\* (mutant) the walk takes a lowest cell next.
Ready_Lowest(f, done, r, c) ==
    { i \in Cells(r, c) \ done : \A j \in Cells(r, c) \ done : f[j] >= f[i] }

\* The cells that may stand next in `order`: sort_unstable_by on descending
\* filled elevation puts a highest cell not yet placed next, and leaves the
\* choice among equal cells open.
Ready(f, done, r, c) ==
    { i \in Cells(r, c) \ done : \A j \in Cells(r, c) \ done : f[j] <= f[i] }

\* The cell that i hands its total to, or -1.
Receiver(i, dir, r, c) ==
    IF dir[i] = 0 THEN -1 ELSE Neighbour(i, dir[i], r, c)

\* ------------------------------------------------------------------ state machine: accumulation walk

\* Every 2x3 field over the levels 0..MaxWalkZ, and the ramp and the
\* valley on a 4x5 raster with one cell overwritten.
MaxWalkZ == 2

WalkFields ==
    { [rows |-> 2, cols |-> 3, data |-> d] : d \in [Cells(2, 3) -> 0..MaxWalkZ] }
    \cup
    { [rows |-> 4, cols |-> 5, data |-> Set(TestTerrain(t, 4, 5), i, k * PitStep)] :
        t \in {"ramp", "valley"}, i \in Cells(4, 5), k \in 0..MaxPit }

InitWalk ==
    /\ \E hf \in WalkFields :
        /\ rows = hf.rows
        /\ cols = hf.cols
        /\ data = hf.data
    /\ before = data
    /\ filled = <<>>
    /\ flow = NoFlow
    /\ network = NoNetwork
    /\ basins = <<>>
    /\ glacial = <<>>
    /\ args = <<>>
    /\ result = <<>>
    /\ pc = "input"

\* compute_d8_flow up to `let mut accumulation = vec![1u32; n]`.  result
\* holds the cells of `order` walked so far; args notes whether two cells
\* of one level that hand to the same cell were walked against their
\* index order.
RouteDirections ==
    /\ pc = "input"
    /\ \E f \in { Stored(priority_flood(data, rows, cols)) } :
        /\ filled' = f
        /\ flow' = [direction    |-> Directions(f, rows, cols),
                    accumulation |-> [i \in Cells(rows, cols) |-> 1]]
    /\ result' = {}
    /\ args' = [against_index |-> FALSE]
    /\ pc' = "walking"
    /\ UNCHANGED <<rows, cols, data, before, network, basins, glacial>>

\* One turn of `for &i in &order`.
WalkStep ==
    /\ pc = "walking"
    /\ \E i \in Ready(filled, result, rows, cols) :
        /\ flow' = [flow EXCEPT !.accumulation =
                        Donate(flow.accumulation, i, flow.direction, rows, cols)]
        /\ result' = result \cup {i}
        /\ args' = [against_index |->
                        \/ args.against_index
                        \/ \E j \in result :
                            /\ j > i
                            /\ filled[j] = filled[i]
                            /\ Receiver(i, flow.direction, rows, cols) # -1
                            /\ Receiver(j, flow.direction, rows, cols)
                                 = Receiver(i, flow.direction, rows, cols)]
        /\ pc' = (IF result \cup {i} = Cells(rows, cols) THEN "routed" ELSE "walking")
    /\ UNCHANGED <<rows, cols, data, before, filled, network, basins, glacial>>

NextWalk ==
    \/ RouteDirections
    \/ WalkStep

SpecWalk == InitWalk /\ [][NextWalk]_vars

\* ------------------------------------------------------------------ claims: accumulation walk

\* C29: the accumulation does not depend on the order in which cells of
\* equal filled elevation are walked: every walk in descending filled
\* elevation ends with the accumulation of the sequential sorted walk,
\* whatever tie order the sort leaves.
C29_AccumulationOrderIndependent ==
    pc = "routed" =>
        \A tb \in TieBreaks :
            flow.accumulation = Accumulate(filled, flow.direction, tb, rows, cols)

\* A finished walk in which two cells of one level handing to the same
\* cell were taken against their index order, below a cell that had itself
\* received.
C29_Witness ==
    /\ pc = "routed"
    /\ args.against_index
    /\ \E i \in Cells(rows, cols) :
        /\ flow.accumulation[i] >= 2
        /\ Receiver(i, flow.direction, rows, cols) # -1
====
